---- MODULE Spec2Model ----
(***************************************************************************)
(* A model of the type erased value container FAny (Mcro/Any.h, Any.cpp),  *)
(* of the explicit base lists it reads (Mcro/Inheritance.h) and of the     *)
(* component store IComposable built on it (Mcro/Composition.h/.cpp).      *)
(*                                                                         *)
(* Payload objects live in `heap`; a pointer is an index into it and 0 is  *)
(* nullptr.  A closure is the record of what it captured.  Every call of a *)
(* lifetime facility is recorded on the payload it was called for.         *)
(***************************************************************************)
EXTENDS Integers, Sequences, FiniteSets, TLC

VARIABLES
    heap,        \* the payload objects ever allocated, by pointer
    anys,        \* the FAny objects of a program of FAny values
    comps,       \* the composable objects of a program of composables
    hookCalls,   \* the hook calls the last operation on a composable made, in order
    fatal,       \* the fatal error that ended the process, or NoFatal
    anyAliases,  \* history: the types the program registered on each FAny by WithAlias / With
    compAliases, \* history: per composable, the last added component and the types the
                 \* program registered for each component by AddAlias / WithAlias / With
    types,       \* the FType values of a program of type identities
    compatible,  \* per pair of them, what IsCompatibleWith returned when it was called
    event,       \* the TEventDelegate object of a program of events
    nextHandle,  \* the id the next FDelegateHandle is generated with
    eventCalls,  \* the delegate executions the last operation on the event made, in order
    onceHandles  \* history: the handles of the bindings added with an actual policy of Once

vars == <<heap, anys, comps, hookCalls, fatal, anyAliases, compAliases, types, compatible,
          event, nextHandle, eventCalls, onceHandles>>

\* the variables of the component stores, which a program of FAny values leaves alone
compVars == <<comps, hookCalls, compAliases>>

\* the variables of the FAny values, which a program of composables leaves alone
anyVars == <<anys, anyAliases>>

\* the variables of the type identities, which the other programs leave alone
typeVars == <<types, compatible>>

\* the variables of the event, which the other programs leave alone
eventVars == <<event, nextHandle, eventCalls, onceHandles>>

(* ---------------------------------------------------------------------- *)
(* Bounds                                                                 *)
(* ---------------------------------------------------------------------- *)
\* number of FAny objects that can exist at the same time
MaxAny == 3
\* number of payload objects ever allocated in one run
MaxPayloads == 3
\* entries the external pool holds before anything is wrapped
InitialPoolSize == 1
\* number of composable objects that can exist at the same time
MaxComposables == 2
\* number of component objects ever allocated in one run
MaxComponents == 3
\* number of entries all alias lists of one composable hold together
MaxAliasEntries == 2

(* ---------------------------------------------------------------------- *)
(* Types and their explicit base lists                                    *)
(* ---------------------------------------------------------------------- *)
\* FType{}: the identity with Hash = 0
NoType == "None"

\* T::Bases, the TTypes<...> list of a type that declares one (TInherit).
\* FIntrusiveInherit is declared in Any.Spec.cpp; the other types are declared by
\* the program in the same way, so that a base has bases of its own.  FLattice
\* is reached from its bases along many paths: each of the two bases of a level
\* declares the two bases of the next level.  Every type not listed (FAnyTest,
\* FComponentA, FCopyConstructCounter, ...) declares none.
Bases(T) ==
    CASE T = "FIntrusiveInherit" -> <<"IBaseA", "IBaseB", "IBaseC">>
      [] T = "INested"           -> <<"IBaseA">>
      [] T = "FNested"           -> <<"INested", "IBaseB">>
      [] T = "FAwareComponent"   -> <<"IComponentInterface">>
      [] T = "INestedInterface"  -> <<"IComponentInterface">>
      [] T = "FDeepComponent"    -> <<"INestedInterface">>
      [] T = "FLattice"          -> <<"ILevel1A", "ILevel3A", "IDropped">>
      [] T \in {"ILevel1A", "ILevel1B"} -> <<"ILevel2A", "ILevel2B">>
      [] T \in {"ILevel2A", "ILevel2B"} -> <<"ILevel3A", "ILevel3B">>
      [] T \in {"ILevel3A", "ILevel3B"} -> <<"ILevel4A", "ILevel4B">>
      [] T \in {"ILevel4A", "ILevel4B"} -> <<"ILevel5A", "ILevel5B">>
      [] T \in {"ILevel5A", "ILevel5B"} -> <<"ILevel6A", "ILevel6B">>
      [] OTHER                   -> <<>>

CHasBases(T) == Bases(T) # <<>>

CCopyConstructible(T) == T # "FCopyForbidden"

RECURSIVE Detail_ForEachExplicitBase(_)
\* the types the function is called with, in calling order: each listed base
\* and then, before the next listed base, that base's own bases
Detail_ForEachExplicitBase(list) ==
    IF list = <<>> THEN <<>>
    ELSE LET T == Head(list)
         IN  <<T>> \o (IF CHasBases(T) THEN Detail_ForEachExplicitBase(Bases(T)) ELSE <<>>)
                   \o Detail_ForEachExplicitBase(Tail(list))

ForEachExplicitBase(T) ==
    IF CHasBases(T) THEN Detail_ForEachExplicitBase(Bases(T)) ELSE <<>>

Range(s) == {s[i] : i \in DOMAIN s}

(* ---------------------------------------------------------------------- *)
(* Payload objects                                                        *)
(* ---------------------------------------------------------------------- *)
nullptr == 0

\* a payload made by `new T()` or found in the pool, before any FAny owns it
NewPayload(T, pooled) ==
    [type |-> T, CopyCount |-> 0, MoveCount |-> 0, copiedFrom |-> nullptr,
     madeBy |-> IF pooled THEN "pool" ELSE "new", inPool |-> pooled, alive |-> TRUE,
     deleteCalls |-> 0, removeCalls |-> 0]

\* T(T const&): FCopyConstructCounter counts, the other types just copy
CopyConstructor(h, src) ==
    [type |-> h[src].type,
     CopyCount |-> IF h[src].type = "FCopyConstructCounter" THEN h[src].CopyCount + 1
                   ELSE h[src].CopyCount,
     MoveCount |-> 0, copiedFrom |-> src, madeBy |-> "new T(object)", inPool |-> FALSE,
     alive |-> TRUE, deleteCalls |-> 0, removeCalls |-> 0]

\* a default copy facility that copies every type
DefaultCopyConstruct_Always(h, T, object) ==
    <<Append(h, CopyConstructor(h, object)), Len(h) + 1>>

\* TAnyTypeFacilities<T>::CopyConstruct, the default: <<heap, new pointer>>
DefaultCopyConstruct(h, T, object) ==
    IF CCopyConstructible(T)
    THEN <<Append(h, CopyConstructor(h, object)), Len(h) + 1>>
    ELSE <<h, nullptr>>

\* TAnyTypeFacilities<T>::Destruct, the default: delete object
DefaultDestruct(h, object) ==
    IF object = nullptr THEN h
    ELSE [h EXCEPT ![object].alive = FALSE, ![object].deleteCalls = @ + 1]

\* customLifespan.CopyConstruct: a new entry of the pool
CustomCopyConstruct(h, T, object) ==
    <<Append(h, [NewPayload(T, TRUE) EXCEPT !.copiedFrom = object,
                                            !.madeBy = "stupidPool.Add"]),
      Len(h) + 1>>

\* customLifespan.Destruct: the entry leaves the pool
CustomDestruct(h, object) ==
    [h EXCEPT ![object].inPool = FALSE, ![object].alive = FALSE,
              ![object].removeCalls = @ + 1]

FacilitiesCopyConstruct(fac, h, T, object) ==
    IF fac = "custom" THEN CustomCopyConstruct(h, T, object)
    ELSE DefaultCopyConstruct(h, T, object)

FacilitiesDestruct(fac, h, object) ==
    IF fac = "custom" THEN CustomDestruct(h, object) ELSE DefaultDestruct(h, object)

stupidPool(h) == {p \in DOMAIN h : h[p].inPool}

(* ---------------------------------------------------------------------- *)
(* FAny                                                                   *)
(* ---------------------------------------------------------------------- *)
\* the process runs: no fatal error was raised
NoFatal == [at |-> "none", type |-> NoType]

\* checkf(self->Storage, "Copy constructor failed for %s. Is it deleted?", T)
CheckfFatal(T) ==
    IF T # NoType THEN [at |-> "Copy constructor failed", type |-> T] ELSE NoFatal

\* an unbound TFunction
Unbound == [bound |-> FALSE, facilities |-> "none", T |-> NoType]

\* the lambda [facilities](FAny* self ...) made in the constructor for T
Closure(fac, T) == [bound |-> TRUE, facilities |-> fac, T |-> T]

\* FAny(): the state of the default member initializers
EmptyAny ==
    [Storage |-> nullptr, MainType |-> NoType, Destruct |-> Unbound,
     CopyConstruct |-> Unbound, ValidTypes |-> {}]

\* a slot in which no FAny object exists
Absent == [Storage |-> nullptr, MainType |-> "absent", Destruct |-> Unbound,
           CopyConstruct |-> Unbound, ValidTypes |-> {}]

AddAlias(self, alias) ==
    IF alias \notin self.ValidTypes
    THEN [self EXCEPT !.ValidTypes = @ \cup {alias}]
    ELSE self

RECURSIVE AddAliasEach(_, _)
\* (self.AddAlias(TTypeOf<T>), ...) over a list of types
AddAliasEach(self, list) ==
    IF list = <<>> THEN self
    ELSE AddAliasEach(AddAlias(self, Head(list)), Tail(list))

\* a constructor that registers the main type only
FAnyConstruct_MainTypeOnly(newObject, T, fac) ==
    [Storage |-> newObject, MainType |-> T,
     Destruct |-> Closure(fac, T), CopyConstruct |-> Closure(fac, T),
     ValidTypes |-> {T}]

\* FAny(T* newObject, TAnyTypeFacilities<T> const& facilities)
FAnyConstruct(newObject, T, fac) ==
    AddAliasEach([Storage |-> newObject, MainType |-> T,
                  Destruct |-> Closure(fac, T), CopyConstruct |-> Closure(fac, T),
                  ValidTypes |-> {T}],
                 ForEachExplicitBase(T))

\* a lookup that does not test ValidTypes
TryGet_Unchecked(self, T) == self.Storage

TryGet(self, T) == IF T \in self.ValidTypes THEN self.Storage ELSE nullptr

\* an alias registration that leaves out the bases of the alias
WithAlias_NoBases(self, T) == AddAlias(self, T)

WithAlias(self, T) == AddAliasEach(AddAlias(self, T), ForEachExplicitBase(T))

With(self, list) == AddAliasEach(self, list)

IsValid(self) == self.Storage # nullptr

\* a reset that leaves the alias set behind
Reset_KeepsValidTypes(self) == [EmptyAny EXCEPT !.ValidTypes = self.ValidTypes]

Reset(self) == EmptyAny

\* a copy of the type information that installs the default lifetime facilities
CopyTypeInfo_DefaultFacilities(self, other) ==
    [self EXCEPT !.MainType = other.MainType, !.ValidTypes = other.ValidTypes,
                 !.CopyConstruct = Closure("default", other.MainType),
                 !.Destruct = Closure("default", other.MainType)]

CopyTypeInfo(self, other) ==
    [self EXCEPT !.MainType = other.MainType, !.ValidTypes = other.ValidTypes,
                 !.CopyConstruct = other.CopyConstruct, !.Destruct = other.Destruct]

\* a copy that shares the payload of the source
CallCopyConstruct_Shallow(closure, self, other, h) ==
    [self |-> CopyTypeInfo([self EXCEPT !.Storage = other.Storage], other),
     heap |-> h, checkf |-> NoType]

\* the CopyConstruct closure of the constructor, called as closure(self, other):
\* the new FAny, the heap, and the type named by a failed checkf (or NoType)
CallCopyConstruct(closure, self, other, h) ==
    LET made == FacilitiesCopyConstruct(closure.facilities, h, closure.T, other.Storage)
        stored == [self EXCEPT !.Storage = made[2]]
    IN  IF stored.Storage = nullptr
        THEN [self |-> stored, heap |-> made[1], checkf |-> closure.T]
        ELSE [self |-> CopyTypeInfo(stored, other), heap |-> made[1], checkf |-> NoType]

\* FAny(FAny const& other)
FAnyCopy(other, h) ==
    IF IsValid(other)
    THEN CallCopyConstruct(other.CopyConstruct, EmptyAny, other, h)
    ELSE [self |-> EmptyAny, heap |-> h, checkf |-> NoType]

\* a move that leaves the source as it was
FAnyMove_NoReset(other) ==
    <<[Storage |-> other.Storage, MainType |-> other.MainType,
       Destruct |-> other.Destruct, CopyConstruct |-> other.CopyConstruct,
       ValidTypes |-> other.ValidTypes],
      other>>

\* FAny(FAny&& other): <<the new FAny, other afterwards>>
FAnyMove(other) ==
    <<[Storage |-> other.Storage, MainType |-> other.MainType,
       Destruct |-> other.Destruct, CopyConstruct |-> other.CopyConstruct,
       ValidTypes |-> other.ValidTypes],
      Reset(other)>>

\* the Destruct closure of the constructor, called as closure(self)
CallDestruct(closure, self, h) ==
    [self |-> [self EXCEPT !.Storage = nullptr],
     heap |-> FacilitiesDestruct(closure.facilities, h, self.Storage)]

\* ~FAny(): the heap afterwards
FAnyDestroy(self, h) ==
    IF self.Destruct.bound THEN CallDestruct(self.Destruct, self, h).heap ELSE h

(* ---------------------------------------------------------------------- *)
(* TMap: the entries in the order they were added                         *)
(* ---------------------------------------------------------------------- *)
MapContains(m, k) == \E n \in DOMAIN m : m[n].key = k

MapIndex(m, k) == CHOOSE n \in DOMAIN m : m[n].key = k

\* TMap::operator[] / FindChecked, used where the key is known to be there
MapFind(m, k) == m[MapIndex(m, k)].value

\* TMap::Add: a new entry, or the new value in the place of the old one
MapAdd(m, k, v) ==
    IF MapContains(m, k) THEN [m EXCEPT ![MapIndex(m, k)].value = v]
    ELSE Append(m, [key |-> k, value |-> v])

MapRemove(m, k) == SelectSeq(m, LAMBDA e : e.key # k)

MapKeys(m) == {m[n].key : n \in DOMAIN m}

(* ---------------------------------------------------------------------- *)
(* IComposable                                                            *)
(* ---------------------------------------------------------------------- *)
CExplicitComponent(T) ==
    T \in {"FDeepComponent", "FStrictComponent", "FAwareComponent", "FSpawnerComponent"}

CStrictComponent(T) == T = "FStrictComponent"

\* a concept that does not look at the owner type
CCompatibleExplicitComponent_AnyOwner(T, Self) == CExplicitComponent(T)

\* t.OnCreatedAt(parent) compiles: the components take a FComposableSimple&, which
\* a FComposableHooked (a FComposableSimple that binds OnComponentAdded) is too
CCompatibleExplicitComponent(T, Self) ==
    CExplicitComponent(T) /\ Self \in {"FComposableSimple", "FComposableHooked"}

\* t.OnCopiedAt(parent, from) compiles
CCopyAwareComponent(T, Self) ==
    CCompatibleExplicitComponent(T, Self) /\ T = "FAwareComponent"

\* t.OnMovedAt(parent) compiles
CMoveAwareComponent(T, Self) ==
    CCompatibleExplicitComponent(T, Self) /\ T = "FAwareComponent"

CCompatibleStrictComponent(T, Self) ==
    CStrictComponent(T) /\ CCompatibleExplicitComponent(T, Self)

CCompatibleComponent(T, Self) ==
    ~CStrictComponent(T) \/ CCompatibleStrictComponent(T, Self)

\* IComposable(): the state of the default member initializers, in a class Self
\* whose constructor binds OnComponentAdded or leaves it unbound
NewComposable(Self) ==
    [Self |-> Self, LastAddedComponentHash |-> NoType, Components |-> <<>>,
     ComponentLogistics |-> <<>>, ComponentAliases |-> <<>>,
     OnComponentAdded |-> (Self = "FComposableHooked")]

\* a place in which no composable object exists
AbsentComposable == NewComposable("absent")

\* history of a composable on which nothing was added or registered
NoAliases ==
    [last |-> NoType,
     of |-> [T \in {"FComponentA", "FDeepComponent", "FAwareComponent",
                    "FSpawnerComponent"} |-> {}]]

\* one call of a hook: the component it is called on, the parent and the source
\* component it is given
HookCall(hook, on, parent, from) ==
    [hook |-> hook, on |-> on, parent |-> parent, from |-> from]

\* a test that never finds the component
HasExactComponent_Never(self, typeHash) == FALSE

HasExactComponent(self, typeHash) == MapContains(self.Components, typeHash)

HasComponentAliasUnchecked(self, typeHash) == MapContains(self.ComponentAliases, typeHash)

\* a test that prunes the entries whose component is there
HasComponentAlias_Inverted(self, typeHash) ==
    IF HasComponentAliasUnchecked(self, typeHash)
    THEN LET components == SelectSeq(MapFind(self.ComponentAliases, typeHash),
                                     LAMBDA i : ~MapContains(self.Components, i))
         IN  IF components = <<>>
             THEN <<FALSE, MapRemove(self.ComponentAliases, typeHash)>>
             ELSE <<TRUE, MapAdd(self.ComponentAliases, typeHash, components)>>
    ELSE <<FALSE, self.ComponentAliases>>

\* HasComponentAlias: <<the answer, ComponentAliases afterwards>>
HasComponentAlias(self, typeHash) ==
    IF HasComponentAliasUnchecked(self, typeHash)
    THEN LET components == SelectSeq(MapFind(self.ComponentAliases, typeHash),
                                     LAMBDA i : MapContains(self.Components, i))
         IN  IF components = <<>>
             THEN <<FALSE, MapRemove(self.ComponentAliases, typeHash)>>
             ELSE <<TRUE, MapAdd(self.ComponentAliases, typeHash, components)>>
    ELSE <<FALSE, self.ComponentAliases>>

\* an alias registration that forgets the components registered before
AddComponentAlias_Overwrite(self, mainType, validAs) ==
    [self EXCEPT !.ComponentAliases = MapAdd(@, validAs, <<mainType>>)]

\* AddComponentAlias(FTypeHash mainType, FTypeHash validAs)
AddComponentAlias(self, mainType, validAs) ==
    IF HasComponentAliasUnchecked(self, validAs)
    THEN [self EXCEPT !.ComponentAliases =
             MapAdd(@, validAs, Append(MapFind(@, validAs), mainType))]
    ELSE [self EXCEPT !.ComponentAliases = MapAdd(@, validAs, <<mainType>>)]

RECURSIVE AddComponentAliasEach(_, _, _)
\* AddComponentAlias(mainType, TTypeHash<Base>) for each type of a list
AddComponentAliasEach(self, mainType, list) ==
    IF list = <<>> THEN self
    ELSE AddComponentAliasEach(AddComponentAlias(self, mainType, Head(list)),
                               mainType, Tail(list))

\* AddComponentAlias<ValidAs>(FTypeHash mainType)
AddComponentAliasAs(self, mainType, ValidAs) ==
    LET boxed == [self EXCEPT !.Components =
                     MapAdd(@, mainType, WithAlias(MapFind(@, mainType), ValidAs))]
    IN  AddComponentAliasEach(AddComponentAlias(boxed, mainType, ValidAs),
                              mainType, ForEachExplicitBase(ValidAs))

RECURSIVE AddComponentAliasAsEach(_, _, _)
\* (AddComponentAlias<ValidAs>(LastAddedComponentHash), ...)
AddComponentAliasAsEach(self, mainType, pack) ==
    IF pack = <<>> THEN self
    ELSE AddComponentAliasAsEach(AddComponentAliasAs(self, mainType, Head(pack)),
                                 mainType, Tail(pack))

AssertCrash(message, T) == [at |-> message, type |-> T]

\* the Copy closure of a logistics entry, called as Copy(target, targetBoxedComponent)
LogisticsCopy(closure, target, targetBoxedComponent) ==
    IF CCopyAwareComponent(closure.MainType, closure.Self)
    THEN LET targetComponent == TryGet(targetBoxedComponent, closure.MainType)
         IN  IF targetComponent = nullptr
             THEN [calls |-> <<>>,
                   fatal |-> AssertCrash("destination wrapper was incompatible",
                                         closure.MainType)]
             ELSE [calls |-> <<HookCall("OnCopiedAt", targetComponent, target,
                                        closure.unboxedComponent)>>,
                   fatal |-> NoFatal]
    ELSE [calls |-> <<>>, fatal |-> NoFatal]

\* the Move closure of a logistics entry, called as Move(target)
LogisticsMove(closure, target) ==
    IF CMoveAwareComponent(closure.MainType, closure.Self)
    THEN <<HookCall("OnMovedAt", closure.unboxedComponent, target, nullptr)>>
    ELSE <<>>

\* a registration that leaves the aliases of the declared bases for later
AddComponentRegister_NoAliases(self, newComponent, MainType, fac) ==
    [self EXCEPT !.Components =
                     MapAdd(@, MainType, FAnyMove(FAnyConstruct(newComponent, MainType, fac))[1]),
                 !.LastAddedComponentHash = MainType]

\* the part of AddComponent that precedes the hooks: the composable as the hooks
\* find it, with the component stored, LastAddedComponentHash set and the
\* aliases of the declared bases listed
AddComponentRegister(self, newComponent, MainType, fac) ==
    LET boxedComponent == FAnyMove(FAnyConstruct(newComponent, MainType, fac))[1]
        stored == [self EXCEPT !.Components = MapAdd(@, MainType, boxedComponent),
                               !.LastAddedComponentHash = MainType]
    IN  AddComponentAliasEach(stored, MainType, ForEachExplicitBase(MainType))

RECURSIVE AddComponent(_, _, _, _, _, _)
\* unboxedComponent->OnCreatedAt(self): the hook of a component type.  That of
\* FSpawnerComponent is { to.AddComponent(new FComponentA()); }, the others leave
\* the composable alone
OnCreatedAt(to, me, unboxedComponent, MainType, h) ==
    LET call == <<HookCall("OnCreatedAt", unboxedComponent, me, nullptr)>>
    IN  IF MainType = "FSpawnerComponent"
        THEN LET made == Append(h, NewPayload("FComponentA", FALSE))
                 nested == AddComponent(to, me, Len(made), "FComponentA", "default", made)
             IN  [nested EXCEPT !.calls = call \o @]
        ELSE [self |-> to, heap |-> h, calls |-> call, fatal |-> NoFatal]

\* the payloads an AddComponent<MainType> allocates, its hooks included
PayloadsMade(MainType) == IF MainType = "FSpawnerComponent" THEN 2 ELSE 1

\* AddComponent(MainType* newComponent, facilities), called on the composable at `me`
AddComponent(self, me, newComponent, MainType, fac, h) ==
    IF newComponent = nullptr
    THEN [self |-> self, heap |-> h, calls |-> <<>>,
          fatal |-> AssertCrash("newComponent", MainType)]
    ELSE IF HasExactComponent(self, MainType)
    THEN [self |-> self, heap |-> h, calls |-> <<>>,
          fatal |-> AssertCrash("another component already exists under that type",
                                MainType)]
    ELSE
    LET temporary == FAnyMove(FAnyConstruct(newComponent, MainType, fac))
        boxedComponent == temporary[1]
        unboxedComponent == TryGet(boxedComponent, MainType)
        aliased == AddComponentRegister(self, newComponent, MainType, fac)
        added == IF aliased.OnComponentAdded
                 THEN <<HookCall("OnComponentAdded", boxedComponent.Storage, me, nullptr)>>
                 ELSE <<>>
        stored == FAnyDestroy(temporary[2], h)
        created == IF CCompatibleExplicitComponent(MainType, self.Self)
                   THEN OnCreatedAt(aliased, me, unboxedComponent, MainType, stored)
                   ELSE [self |-> aliased, heap |-> stored, calls |-> <<>>,
                         fatal |-> NoFatal]
        logistics == [unboxedComponent |-> unboxedComponent, MainType |-> MainType,
                      Self |-> self.Self]
    IN  [self |-> IF /\ created.fatal = NoFatal
                     /\ CCompatibleExplicitComponent(MainType, self.Self)
                     /\ (CCopyAwareComponent(MainType, self.Self)
                         \/ CMoveAwareComponent(MainType, self.Self))
                  THEN [created.self EXCEPT
                            !.ComponentLogistics = MapAdd(@, MainType, logistics)]
                  ELSE created.self,
         heap |-> created.heap,
         calls |-> added \o created.calls,
         fatal |-> created.fatal]

\* an AddAlias that lists the aliases without looking for the last added component
AddAliasPack_Unchecked(self, pack) ==
    [self |-> AddComponentAliasEach(self, self.LastAddedComponentHash, pack),
     fatal |-> NoFatal]

\* an AddAlias that registers the aliases for the component added first
AddAliasPack_FirstAdded(self, pack) ==
    IF ~(self.LastAddedComponentHash # NoType
         /\ MapContains(self.Components, self.LastAddedComponentHash))
    THEN [self |-> self,
          fatal |-> AssertCrash("no components were added before", NoType)]
    ELSE [self |-> AddComponentAliasAsEach(self, self.Components[1].key, pack),
          fatal |-> NoFatal]

\* AddAlias<ValidAs...>()
AddAliasPack(self, pack) ==
    IF ~(self.LastAddedComponentHash # NoType
         /\ MapContains(self.Components, self.LastAddedComponentHash))
    THEN [self |-> self,
          fatal |-> AssertCrash("no components were added before", NoType)]
    ELSE [self |-> AddComponentAliasAsEach(self, self.LastAddedComponentHash, pack),
          fatal |-> NoFatal]

\* an exact lookup that finds nothing
GetExactComponent_Nothing(self, typeHash) == <<>>

\* an exact lookup that does not test whether the component is there
GetExactComponent_Unchecked(self, typeHash) == <<typeHash>>

\* GetExactComponent: the keys of the FAny entries it points at
GetExactComponent(self, typeHash) ==
    IF HasExactComponent(self, typeHash) THEN <<typeHash>> ELSE <<>>

\* a lookup that uses up the alias list it yields
GetAliasedComponents_Consuming(self, typeHash) ==
    LET has == HasComponentAlias(self, typeHash)
    IN  IF has[1] THEN <<MapFind(has[2], typeHash), MapRemove(has[2], typeHash)>>
        ELSE <<<<>>, has[2]>>

\* GetAliasedComponents: <<the keys of the FAny entries, ComponentAliases afterwards>>
GetAliasedComponents(self, typeHash) ==
    LET has == HasComponentAlias(self, typeHash)
    IN  IF has[1] THEN <<MapFind(has[2], typeHash), has[2]>> ELSE <<<<>>, has[2]>>

GetComponentsDynamic(self, typeHash) ==
    LET aliased == GetAliasedComponents(self, typeHash)
    IN  <<GetExactComponent(self, typeHash) \o aliased[1], aliased[2]>>

\* TMap::Find: the FAny under the key, EmptyAny standing for the null result
ComponentsFind(self, key) ==
    IF MapContains(self.Components, key) THEN MapFind(self.Components, key) ELSE EmptyAny

\* GetComponents<T>(): the pointers it yields, in order
GetComponents(self, T) ==
    LET found == GetComponentsDynamic(self, T)[1]
        got == [n \in DOMAIN found |-> TryGet(ComponentsFind(self, found[n]), T)]
    IN  SelectSeq(got, LAMBDA ptr : ptr # nullptr)

\* what a GetComponents<T>() call leaves in ComponentAliases
GetComponentsEffect(self, T) ==
    [self EXCEPT !.ComponentAliases = GetComponentsDynamic(self, T)[2]]

\* IComposable::TryGet<T>(): GetComponents<T>() | First(nullptr)
ComposableTryGet(self, T) ==
    LET all == GetComponents(self, T) IN IF all = <<>> THEN nullptr ELSE Head(all)

\* a copy of the map that copies none of its entries
CopyComponents_None(m, h) == [map |-> <<>>, heap |-> h, checkf |-> NoType]

RECURSIVE CopyComponents(_, _)
\* Components(other.Components): every FAny copied in turn, up to a failed checkf
CopyComponents(m, h) ==
    IF m = <<>> THEN [map |-> <<>>, heap |-> h, checkf |-> NoType]
    ELSE LET first == FAnyCopy(Head(m).value, h)
         IN  IF first.checkf # NoType
             THEN [map |-> <<>>, heap |-> first.heap, checkf |-> first.checkf]
             ELSE LET rest == CopyComponents(Tail(m), first.heap)
                  IN  [map |-> <<[key |-> Head(m).key, value |-> first.self]>> \o rest.map,
                       heap |-> rest.heap, checkf |-> rest.checkf]

RECURSIVE DestroyComponents(_, _)
\* ~TMap<FTypeHash, FAny>() and TMap::Empty: every FAny destroyed
DestroyComponents(m, h) ==
    IF m = <<>> THEN h ELSE DestroyComponents(Tail(m), FAnyDestroy(Head(m).value, h))

RECURSIVE NotifyCopyEach(_, _, _)
NotifyCopyEach(logistics, me, other) ==
    IF logistics = <<>> THEN [calls |-> <<>>, fatal |-> NoFatal]
    ELSE IF ~MapContains(other.Components, Head(logistics).key)
    THEN [calls |-> <<>>, fatal |-> AssertCrash("TMap::FindChecked", Head(logistics).key)]
    ELSE LET first == LogisticsCopy(Head(logistics).value, me,
                                    MapFind(other.Components, Head(logistics).key))
         IN  IF first.fatal # NoFatal THEN first
             ELSE LET rest == NotifyCopyEach(Tail(logistics), me, other)
                  IN  [calls |-> first.calls \o rest.calls, fatal |-> rest.fatal]

\* NotifyCopyComponents(other), called on the composable at `me`
NotifyCopyComponents(self, me, other) == NotifyCopyEach(self.ComponentLogistics, me, other)

\* a hook is called on, or handed, a component that was destructed before: the
\* closures keep the pointer they captured in AddComponent, whoever owns or has
\* destroyed the payload since
Dangling(calls, h) ==
    \E n \in DOMAIN calls :
        \/ ~h[calls[n].on].alive
        \/ calls[n].from # nullptr /\ ~h[calls[n].from].alive

\* the process ended in the use of a destructed component
UseAfterFree == [at |-> "use of a destructed component", type |-> NoType]

\* IComposable(const IComposable& other), constructing the composable at `me`
ComposableCopy(other, me, h) ==
    LET copied == CopyComponents(other.Components, h)
        self == [Self |-> other.Self,
                 LastAddedComponentHash |-> other.LastAddedComponentHash,
                 Components |-> copied.map,
                 ComponentLogistics |-> other.ComponentLogistics,
                 ComponentAliases |-> other.ComponentAliases,
                 OnComponentAdded |-> other.OnComponentAdded]
    IN  IF copied.checkf # NoType
        THEN [self |-> self, heap |-> copied.heap, calls |-> <<>>,
              fatal |-> CheckfFatal(copied.checkf)]
        ELSE LET notified == NotifyCopyComponents(self, me, other)
             IN  [self |-> self, heap |-> copied.heap, calls |-> notified.calls,
                  fatal |-> notified.fatal]

\* ResetComponents()
ResetComponents(self, h) ==
    [self |-> [self EXCEPT !.Components = <<>>, !.ComponentLogistics = <<>>,
                           !.ComponentAliases = <<>>, !.LastAddedComponentHash = NoType],
     heap |-> DestroyComponents(self.Components, h)]

RECURSIVE NotifyMoveEach(_, _)
NotifyMoveEach(logistics, me) ==
    IF logistics = <<>> THEN <<>>
    ELSE LogisticsMove(Head(logistics).value, me) \o NotifyMoveEach(Tail(logistics), me)

\* NotifyMoveComponents(other), called on the composable at `me`; other lives at `from`
NotifyMoveComponents(self, me, other, from, h) ==
    IF me = from THEN [other |-> other, heap |-> h, calls |-> <<>>]
    ELSE LET reset == ResetComponents(other, h)
         IN  [other |-> reset.self, heap |-> reset.heap,
              calls |-> NotifyMoveEach(self.ComponentLogistics, me)]

\* IComposable(IComposable&& other), constructing the composable at `me`
ComposableMove(other, me, from, h) ==
    LET self == [Self |-> other.Self,
                 LastAddedComponentHash |-> other.LastAddedComponentHash,
                 Components |-> other.Components,
                 ComponentLogistics |-> other.ComponentLogistics,
                 ComponentAliases |-> other.ComponentAliases,
                 OnComponentAdded |-> other.OnComponentAdded]
        movedFrom == [other EXCEPT !.Components = <<>>, !.ComponentLogistics = <<>>,
                                   !.ComponentAliases = <<>>, !.OnComponentAdded = FALSE]
        notified == NotifyMoveComponents(self, me, movedFrom, from, h)
    IN  [self |-> self, other |-> notified.other, heap |-> notified.heap,
         calls |-> notified.calls]

\* ~IComposable(): the heap afterwards
ComposableDestroy(self, h) == DestroyComponents(self.Components, h)

(* ---------------------------------------------------------------------- *)
(* FType, the identity of a type with the hashes of its declared bases    *)
(* ---------------------------------------------------------------------- *)
\* FType::MaxBaseCount
MaxBaseCount == 64

\* the names of the types of the program, in the order that numbers their hashes
TypeNames ==
    <<"FIntrusiveInherit", "IBaseA", "IBaseB", "IBaseC", "INested", "FNested",
      "FAwareComponent", "IComponentInterface", "INestedInterface", "FDeepComponent",
      "FVector", "FLattice", "IDropped",
      "ILevel1A", "ILevel1B", "ILevel2A", "ILevel2B", "ILevel3A", "ILevel3B",
      "ILevel4A", "ILevel4B", "ILevel5A", "ILevel5B", "ILevel6A", "ILevel6B">>

\* TTypeHash<T> = GetCompileTimeTypeHash<T>(): a non-zero number of the type name,
\* distinct names having distinct hashes
TTypeHash(T) == CHOOSE n \in DOMAIN TypeNames : TypeNames[n] = T

\* constexpr FType() {}
FType ==
    [Name |-> "", Hash |-> 0,
     BaseTypeHashes |-> [k \in 1..MaxBaseCount |-> 0], BaseCount |-> 0]

RECURSIVE RecordBases_Unbounded(_, _)
\* a constructor that records every base it is called with
RecordBases_Unbounded(self, bases) ==
    IF bases = <<>> THEN self
    ELSE RecordBases_Unbounded(
             [self EXCEPT !.BaseTypeHashes =
                              [k \in DOMAIN @ \cup {self.BaseCount + 1} |->
                                  IF k = self.BaseCount + 1 THEN TTypeHash(Head(bases))
                                  ELSE @[k]],
                          !.BaseCount = @ + 1],
             Tail(bases))

RECURSIVE RecordBases(_, _)
\* the function FType(TTag<T>&&) hands to ForEachExplicitBase<T>, called for each
\* of `bases` in turn: it records the hash while the array has room
RecordBases(self, bases) ==
    IF bases = <<>> THEN self
    ELSE IF self.BaseCount >= MaxBaseCount THEN RecordBases(self, Tail(bases))
    ELSE RecordBases([self EXCEPT !.BaseTypeHashes[self.BaseCount + 1] = TTypeHash(Head(bases)),
                                  !.BaseCount = @ + 1],
                     Tail(bases))

\* TTypeOf<T> = FType(FType::TTag<T>())
TTypeOf(T) ==
    LET self == [FType EXCEPT !.Name = T, !.Hash = TTypeHash(T)]
    IN  IF CHasBases(T) THEN RecordBases(self, ForEachExplicitBase(T)) ELSE self

RECURSIVE FindBase(_, _, _)
\* for (const FTypeHash base : self) if (base == hash) return true;
\* from begin() + k - 1 up to end() = BaseTypeHashes + BaseCount
FindBase(self, hash, k) ==
    IF k > self.BaseCount THEN FALSE
    ELSE IF self.BaseTypeHashes[k] = hash THEN TRUE
    ELSE FindBase(self, hash, k + 1)

\* a test that looks only among the bases of the other type
IsCompatibleWith_OneWay(self, other) ==
    IF self.Hash = other.Hash THEN TRUE
    ELSE FindBase(other, self.Hash, 1)

\* FType::IsCompatibleWith(FType const& other)
IsCompatibleWith(self, other) ==
    IF self.Hash = other.Hash THEN TRUE
    ELSE IF FindBase(other, self.Hash, 1) THEN TRUE
    ELSE IF FindBase(self, other.Hash, 1) THEN TRUE
    ELSE FALSE

\* the FType values of one program
TypeSlots == 1..2

\* IsCompatibleWith was not called for the pair
Uncalled == [called |-> FALSE, result |-> FALSE]

(* ---------------------------------------------------------------------- *)
(* TEventDelegate: a multicast delegate with a policy per binding         *)
(* ---------------------------------------------------------------------- *)
\* handles ever generated in one run
MaxHandles == 4
\* bindings the multicast delegate holds at the same time
MaxBindings == 2

\* FDelegateHandle(): the handle that is not valid
NoHandle == 0

\* FEventPolicy: the flags a binding is added with (CacheViaCopy and ThreadSafe
\* are read from the DefaultPolicy of the type only, and decide how the arguments
\* are stored and whether a lock is taken)
Policy(once, belated) == [Once |-> once, Belated |-> belated]

\* FEventPolicy()
NoPolicy == Policy(FALSE, FALSE)

\* FEventPolicy::With
PolicyWith(self, other) ==
    Policy(self.Once \/ other.Once, self.Belated \/ other.Belated)

\* TOptional<ArgumentsCache>() without a value
NoCache == 0

\* TEventDelegate(): the members as declared, for a type with this DefaultPolicy
NewEvent(DefaultPolicy) ==
    [DefaultPolicy |-> DefaultPolicy, bHasBroadcasted |-> FALSE,
     OnlyNextDelegates |-> {}, BoundUFunctionsMap |-> <<>>, Cache |-> NoCache,
     MulticastDelegate |-> <<>>]

\* an execution of a delegate
Execution(delegate, arg, by) == [delegate |-> delegate, arg |-> arg, by |-> by]

\* MulticastDelegate.Remove(handle)
MulticastRemove(list, handle) == SelectSeq(list, LAMBDA b : b.handle # handle)

\* MulticastDelegate.Broadcast(args...): the bindings executed, last added first
MulticastBroadcast(list, arg) ==
    [n \in DOMAIN list |->
        Execution(list[Len(list) + 1 - n].delegate, arg, "Broadcast")]

\* CallBelated(delegate): the delegate executed with Cache.GetValue()
CallBelated(self, delegate) == <<Execution(delegate, self.Cache, "CallBelated")>>

\* Broadcast(args...)
Broadcast(self, arg) ==
    LET cached == [self EXCEPT !.bHasBroadcasted = TRUE, !.Cache = arg]
        kept == SelectSeq(cached.MulticastDelegate,
                          LAMBDA b : b.handle \notin cached.OnlyNextDelegates)
    IN  [self |-> [cached EXCEPT !.MulticastDelegate = kept, !.OnlyNextDelegates = {}],
         calls |-> MulticastBroadcast(cached.MulticastDelegate, arg)]

\* AddInternal(delegate, policy, uniqueHandle, boundObject, boundFunctionName):
\* `bound` is the (object, function name) pair of a dynamic delegate, or NoType
AddInternal(self, next, delegate, policy, uniqueHandle, bound) ==
    LET actualPolicy == PolicyWith(policy, self.DefaultPolicy)
    IN  IF self.bHasBroadcasted /\ actualPolicy.Belated /\ actualPolicy.Once
        THEN [self |-> self, next |-> next, handle |-> NoHandle,
              calls |-> CallBelated(self, delegate), added |-> FALSE]
        ELSE LET adds == uniqueHandle = NoHandle
                 outputHandle == IF adds THEN next ELSE uniqueHandle
                 added == [self EXCEPT
                     !.MulticastDelegate =
                         Append(@, [handle |-> outputHandle, delegate |-> delegate]),
                     !.BoundUFunctionsMap =
                         IF bound # NoType THEN MapAdd(@, bound, outputHandle) ELSE @,
                     !.OnlyNextDelegates =
                         IF actualPolicy.Once THEN @ \cup {outputHandle} ELSE @]
             IN  [self |-> IF adds THEN added ELSE self,
                  next |-> IF adds THEN next + 1 ELSE next,
                  handle |-> outputHandle,
                  calls |-> IF self.bHasBroadcasted /\ actualPolicy.Belated
                            THEN CallBelated(self, delegate) ELSE <<>>,
                  added |-> adds]

\* AddUniqueInternal(delegate, policy, boundObject, boundFunctionName)
AddUniqueInternal(self, next, delegate, policy, bound) ==
    LET uniqueHandle == IF MapContains(self.BoundUFunctionsMap, bound)
                        THEN MapFind(self.BoundUFunctionsMap, bound) ELSE NoHandle
    IN  AddInternal(self, next, delegate, policy, uniqueHandle, bound)

\* BoundUFunctionsMap.FindKey(delegateHandle), then Remove(*key)
RemoveKeyOf(map, handle) == SelectSeq(map, LAMBDA e : e.value # handle)

\* RemoveInternal(delegateHandle)
RemoveInternal(self, delegateHandle) ==
    [self EXCEPT !.MulticastDelegate = MulticastRemove(@, delegateHandle),
                 !.BoundUFunctionsMap = RemoveKeyOf(@, delegateHandle),
                 !.OnlyNextDelegates = @ \ {delegateHandle}]

\* Remove(dynamicDelegate)
RemoveDynamic(self, bound) ==
    IF MapContains(self.BoundUFunctionsMap, bound)
    THEN RemoveInternal([self EXCEPT !.BoundUFunctionsMap = MapRemove(@, bound)],
                        MapFind(self.BoundUFunctionsMap, bound))
    ELSE self

\* TEventDelegate::Reset()
EventReset(self) ==
    [self EXCEPT !.MulticastDelegate = <<>>, !.OnlyNextDelegates = {},
                 !.BoundUFunctionsMap = <<>>, !.bHasBroadcasted = FALSE,
                 !.Cache = NoCache]

(* ---------------------------------------------------------------------- *)
(* The FAny objects of a program: construction, use and destruction       *)
(* ---------------------------------------------------------------------- *)
Slots == 1..MaxAny

Owners == 1..MaxComposables

\* the types a program wraps with the default facilities
WrappedTypes == {"FCopyConstructCounter", "FCopyForbidden", "FNested"}
\* the types a program names in WithAlias
AliasTypes == {"INested"}
\* the lists a program names in With(TTypes<...>())
AliasLists == {<<"INested">>}
\* every type a program can ask for
AllTypes == WrappedTypes \cup AliasTypes
            \cup {"FAnyTest", "FAnyTestBase", "IBaseA", "IBaseB", "FVector"}

RECURSIVE AllBases(_)
\* the declared bases of a type, of its bases, and so on, as the documentation of
\* TInherit and ForEachExplicitBase describes them
AllBases(T) == UNION {{Bases(T)[n]} \cup AllBases(Bases(T)[n]) : n \in DOMAIN Bases(T)}

Exists(i) == anys[i] # Absent

\* the payload is owned by an FAny object that exists
Owned(p) == \E i \in Slots : Exists(i) /\ anys[i].Storage = p

InitAny ==
    /\ heap = [p \in 1..InitialPoolSize |-> NewPayload("FAnyTest", TRUE)]
    /\ anys = [i \in Slots |-> Absent]
    /\ anyAliases = [i \in Slots |-> {}]
    /\ comps = [c \in Owners |-> AbsentComposable]
    /\ compAliases = [c \in Owners |-> NoAliases]
    /\ hookCalls = <<>>
    /\ fatal = NoFatal
    /\ event = NewEvent(NoPolicy)
    /\ nextHandle = 1
    /\ eventCalls = <<>>
    /\ onceHandles = {}
    /\ types = [n \in TypeSlots |-> FType]
    /\ compatible = [pair \in TypeSlots \X TypeSlots |-> Uncalled]

\* FAny(new T()).  The objects are interchangeable, so a program wraps at the first
\* one; the others are made from it by copy and move, or default constructed.
Wrap(i, T) ==
    /\ fatal = NoFatal /\ ~Exists(i) /\ Len(heap) < MaxPayloads
    /\ heap' = Append(heap, NewPayload(T, FALSE))
    /\ anys' = [anys EXCEPT ![i] = FAnyConstruct(Len(heap) + 1, T, "default")]
    /\ UNCHANGED <<fatal, anyAliases, compVars, typeVars, eventVars>>

\* FAny(stupidPool.Find(key), customLifespan)
WrapPooled(i, p) ==
    /\ fatal = NoFatal /\ ~Exists(i)
    /\ p \in stupidPool(heap) /\ ~Owned(p)
    /\ anys' = [anys EXCEPT ![i] = FAnyConstruct(p, heap[p].type, "custom")]
    /\ UNCHANGED <<heap, fatal, anyAliases, compVars, typeVars, eventVars>>

\* FAny(static_cast<T*>(nullptr))
WrapNull(i, T) ==
    /\ fatal = NoFatal /\ ~Exists(i)
    /\ anys' = [anys EXCEPT ![i] = FAnyConstruct(nullptr, T, "default")]
    /\ UNCHANGED <<heap, fatal, anyAliases, compVars, typeVars, eventVars>>

\* FAny()
DefaultConstruct(i) ==
    /\ fatal = NoFatal /\ ~Exists(i)
    /\ anys' = [anys EXCEPT ![i] = EmptyAny]
    /\ UNCHANGED <<heap, fatal, anyAliases, compVars, typeVars, eventVars>>

\* any.WithAlias<T>()
DoWithAlias(i, T) ==
    /\ fatal = NoFatal /\ Exists(i)
    /\ anys' = [anys EXCEPT ![i] = WithAlias(anys[i], T)]
    /\ anyAliases' = [anyAliases EXCEPT ![i] = @ \cup {T} \cup AllBases(T)]
    /\ UNCHANGED <<heap, fatal, compVars, typeVars, eventVars>>

\* any.With(TTypes<...>())
DoWith(i, list) ==
    /\ fatal = NoFatal /\ Exists(i)
    /\ anys' = [anys EXCEPT ![i] = With(anys[i], list)]
    /\ anyAliases' = [anyAliases EXCEPT ![i] = @ \cup Range(list)]
    /\ UNCHANGED <<heap, fatal, compVars, typeVars, eventVars>>

\* FAny copy = other;
DoCopy(i, j) ==
    /\ fatal = NoFatal /\ ~Exists(i) /\ Exists(j)
    /\ IsValid(anys[j]) => Len(heap) < MaxPayloads
    /\ LET r == FAnyCopy(anys[j], heap)
       IN  /\ anys' = [anys EXCEPT ![i] = r.self]
           /\ heap' = r.heap
           /\ fatal' = CheckfFatal(r.checkf)
    /\ anyAliases' = [anyAliases EXCEPT ![i] = anyAliases[j]]
    /\ UNCHANGED <<compVars, typeVars, eventVars>>

\* FAny moved { MoveTemp(other) };
DoMove(i, j) ==
    /\ fatal = NoFatal /\ ~Exists(i) /\ Exists(j)
    /\ LET r == FAnyMove(anys[j])
       IN  anys' = [anys EXCEPT ![i] = r[1], ![j] = r[2]]
    /\ anyAliases' = [anyAliases EXCEPT ![i] = anyAliases[j], ![j] = {}]
    /\ UNCHANGED <<heap, fatal, compVars, typeVars, eventVars>>

\* the FAny goes out of scope
DoDestroy(i) ==
    /\ fatal = NoFatal /\ Exists(i)
    /\ heap' = FAnyDestroy(anys[i], heap)
    /\ anys' = [anys EXCEPT ![i] = Absent]
    /\ anyAliases' = [anyAliases EXCEPT ![i] = {}]
    /\ UNCHANGED <<fatal, compVars, typeVars, eventVars>>

NextAny ==
    \/ \E T \in WrappedTypes : Wrap(1, T)
    \/ \E p \in 1..MaxPayloads : WrapPooled(1, p)
    \/ WrapNull(1, "FCopyConstructCounter")
    \/ \E i \in Slots : DefaultConstruct(i)
    \/ \E i \in Slots, T \in AliasTypes : DoWithAlias(i, T)
    \/ \E i \in Slots, list \in AliasLists : DoWith(i, list)
    \/ \E i, j \in Slots : DoCopy(i, j)
    \/ \E i, j \in Slots : DoMove(i, j)
    \/ \E i \in Slots : DoDestroy(i)

SpecAny == InitAny /\ [][NextAny]_vars

(* ---------------------------------------------------------------------- *)
(* The composable objects of a program                                    *)
(* ---------------------------------------------------------------------- *)
\* the classes deriving from IComposable
ComposableClasses == {"FComposableSimple", "FComposableOther", "FComposableHooked"}
\* the component types a program adds
ComponentTypes == {"FComponentA", "FDeepComponent", "FAwareComponent"}
\* the packs a program names in AddAlias / WithAlias / With(TTypes<...>())
AliasPacks == {<<"FComponentA">>, <<"INestedInterface">>}
\* every type a program can ask a composable for
QueryTypes == ComponentTypes \cup {"IComponentInterface", "INestedInterface", "FVector"}

Composed(c) == comps[c] # AbsentComposable

\* the entries of all alias lists of a composable
AliasEntries(self) ==
    LET lens == [n \in DOMAIN self.ComponentAliases |-> Len(self.ComponentAliases[n].value)]
        Sum[n \in 0..Len(lens)] == IF n = 0 THEN 0 ELSE Sum[n - 1] + lens[n]
    IN  Sum[Len(lens)]

\* the types a pack registers: each type of the pack and its declared bases
Registers(pack) == UNION {{pack[n]} \cup AllBases(pack[n]) : n \in DOMAIN pack}

InitComp ==
    /\ heap = <<>>
    /\ anys = [i \in Slots |-> Absent]
    /\ anyAliases = [i \in Slots |-> {}]
    /\ comps = [c \in Owners |-> AbsentComposable]
    /\ compAliases = [c \in Owners |-> NoAliases]
    /\ hookCalls = <<>>
    /\ fatal = NoFatal
    /\ event = NewEvent(NoPolicy)
    /\ nextHandle = 1
    /\ eventCalls = <<>>
    /\ onceHandles = {}
    /\ types = [n \in TypeSlots |-> FType]
    /\ compatible = [pair \in TypeSlots \X TypeSlots |-> Uncalled]

\* auto composable = Self();
\* No operation takes two composables that exist already, so a program of several
\* unrelated composables behaves as several programs: one is constructed, the
\* others are made from it by copy and move.
Construct(c, Self) ==
    /\ fatal = NoFatal /\ \A o \in Owners : ~Composed(o)
    /\ comps' = [comps EXCEPT ![c] = NewComposable(Self)]
    /\ hookCalls' = <<>>
    /\ UNCHANGED <<heap, fatal, compAliases, anyVars, typeVars, eventVars>>

\* composable.AddComponent(new MainType()) and the fluent With forms of it
DoAddComponent(c, MainType) ==
    /\ fatal = NoFatal /\ Composed(c)
    /\ Len(heap) + PayloadsMade(MainType) <= MaxComponents
    /\ CCompatibleComponent(MainType, comps[c].Self)
    /\ LET made == Append(heap, NewPayload(MainType, FALSE))
           r == AddComponent(comps[c], c, Len(made), MainType, "default", made)
       IN  /\ comps' = [comps EXCEPT ![c] = r.self]
           /\ heap' = r.heap
           /\ hookCalls' = r.calls
           /\ fatal' = r.fatal
           /\ compAliases' = IF r.fatal = NoFatal
                             THEN [compAliases EXCEPT ![c].last = MainType,
                                                      ![c].of[MainType] = {}]
                             ELSE compAliases
    /\ UNCHANGED <<anyVars, typeVars, eventVars>>

\* composable.AddComponent(static_cast<MainType*>(nullptr))
DoAddNullComponent(c, MainType) ==
    /\ fatal = NoFatal /\ Composed(c)
    /\ CCompatibleComponent(MainType, comps[c].Self)
    /\ LET r == AddComponent(comps[c], c, nullptr, MainType, "default", heap)
       IN  /\ comps' = [comps EXCEPT ![c] = r.self]
           /\ heap' = r.heap
           /\ hookCalls' = r.calls
           /\ fatal' = r.fatal
    /\ UNCHANGED <<compAliases, anyVars, typeVars, eventVars>>

\* composable.AddAlias<ValidAs...>() and the fluent WithAlias / With(TTypes) forms
DoAddAlias(c, pack) ==
    /\ fatal = NoFatal /\ Composed(c)
    /\ AliasEntries(comps[c]) < MaxAliasEntries
    /\ LET r == AddAliasPack(comps[c], pack)
       IN  /\ comps' = [comps EXCEPT ![c] = r.self]
           /\ fatal' = r.fatal
           /\ compAliases' = IF r.fatal = NoFatal
                             THEN [compAliases EXCEPT ![c].of[compAliases[c].last] =
                                      @ \cup Registers(pack)]
                             ELSE compAliases
    /\ hookCalls' = <<>>
    /\ UNCHANGED <<heap, anyVars, typeVars, eventVars>>

\* composable.GetComponents<T>(), TryGet<T>()
DoGetComponents(c, T) ==
    /\ fatal = NoFatal /\ Composed(c)
    /\ comps' = [comps EXCEPT ![c] = GetComponentsEffect(comps[c], T)]
    /\ hookCalls' = <<>>
    /\ UNCHANGED <<heap, fatal, compAliases, anyVars, typeVars, eventVars>>

\* Self copy = other;
DoCopyComposable(d, c) ==
    /\ fatal = NoFatal /\ ~Composed(d) /\ Composed(c)
    /\ Len(heap) + Len(comps[c].Components) <= MaxComponents
    /\ LET r == ComposableCopy(comps[c], d, heap)
       IN  /\ comps' = [comps EXCEPT ![d] = r.self]
           /\ heap' = r.heap
           /\ hookCalls' = r.calls
           \* the use of a destructed component is undefined: the hooks return,
           \* or the process ends there
           /\ \/ fatal' = r.fatal
              \/ Dangling(r.calls, heap) /\ fatal' = UseAfterFree
    /\ compAliases' = [compAliases EXCEPT ![d] = compAliases[c]]
    /\ UNCHANGED <<anyVars, typeVars, eventVars>>

\* Self moved { MoveTemp(other) };
DoMoveComposable(d, c) ==
    /\ fatal = NoFatal /\ ~Composed(d) /\ Composed(c)
    /\ LET r == ComposableMove(comps[c], d, c, heap)
       IN  /\ comps' = [comps EXCEPT ![d] = r.self, ![c] = r.other]
           /\ heap' = r.heap
           /\ hookCalls' = r.calls
           \* the use of a destructed component is undefined: the hooks return,
           \* or the process ends there
           /\ \/ fatal' = NoFatal
              \/ Dangling(r.calls, heap) /\ fatal' = UseAfterFree
    /\ compAliases' = [compAliases EXCEPT ![d] = compAliases[c], ![c] = NoAliases]
    /\ UNCHANGED <<anyVars, typeVars, eventVars>>

\* the composable goes out of scope
DoDestroyComposable(c) ==
    /\ fatal = NoFatal /\ Composed(c)
    /\ heap' = ComposableDestroy(comps[c], heap)
    /\ comps' = [comps EXCEPT ![c] = AbsentComposable]
    /\ compAliases' = [compAliases EXCEPT ![c] = NoAliases]
    /\ hookCalls' = <<>>
    /\ UNCHANGED <<fatal, anyVars, typeVars, eventVars>>

NextComp ==
    \/ \E Self \in ComposableClasses : Construct(1, Self)
    \/ \E c \in Owners, T \in ComponentTypes : DoAddComponent(c, T)
    \/ \E c \in Owners : DoAddNullComponent(c, "FComponentA")
    \/ \E c \in Owners, pack \in AliasPacks : DoAddAlias(c, pack)
    \/ \E c \in Owners, T \in QueryTypes : DoGetComponents(c, T)
    \/ \E d, c \in Owners : DoCopyComposable(d, c)
    \/ \E d, c \in Owners : DoMoveComposable(d, c)
    \/ \E c \in Owners : DoDestroyComposable(c)

SpecComp == InitComp /\ [][NextComp]_vars

\* the component types of a program in which a hook adds a component
SpawnTypes == {"FSpawnerComponent", "FComponentA"}

\* the programs of composables with a component whose OnCreatedAt adds another one
NextSpawn ==
    \/ \E Self \in {"FComposableSimple", "FComposableHooked"} : Construct(1, Self)
    \/ \E c \in Owners, T \in SpawnTypes : DoAddComponent(c, T)
    \/ \E c \in Owners, pack \in AliasPacks : DoAddAlias(c, pack)
    \/ \E c \in Owners, T \in QueryTypes : DoGetComponents(c, T)
    \/ \E d, c \in Owners : DoCopyComposable(d, c)
    \/ \E d, c \in Owners : DoMoveComposable(d, c)
    \/ \E c \in Owners : DoDestroyComposable(c)

SpecSpawn == InitComp /\ [][NextSpawn]_vars

(* ---------------------------------------------------------------------- *)
(* The type identities of a program                                       *)
(* ---------------------------------------------------------------------- *)
\* the identities a program holds: FType() and TTypeOf<T> of its types
FTypes == {FType} \cup {TTypeOf(TypeNames[n]) : n \in DOMAIN TypeNames}

InitType ==
    /\ types \in [TypeSlots -> FTypes]
    /\ compatible = [pair \in TypeSlots \X TypeSlots |-> Uncalled]
    /\ heap = <<>>
    /\ anys = [i \in Slots |-> Absent]
    /\ anyAliases = [i \in Slots |-> {}]
    /\ comps = [c \in Owners |-> AbsentComposable]
    /\ compAliases = [c \in Owners |-> NoAliases]
    /\ hookCalls = <<>>
    /\ fatal = NoFatal
    /\ event = NewEvent(NoPolicy)
    /\ nextHandle = 1
    /\ eventCalls = <<>>
    /\ onceHandles = {}

\* types[a].IsCompatibleWith(types[b])
DoIsCompatibleWith(a, b) ==
    /\ compatible' = [compatible EXCEPT ![<<a, b>>] =
                         [called |-> TRUE, result |-> IsCompatibleWith(types[a], types[b])]]
    /\ UNCHANGED <<types, heap, fatal, anyVars, compVars, eventVars>>

NextType == \E a, b \in TypeSlots : DoIsCompatibleWith(a, b)

SpecType == InitType /\ [][NextType]_vars

(* ---------------------------------------------------------------------- *)
(* The event of a program                                                 *)
(* ---------------------------------------------------------------------- *)
\* the delegates made from lambdas
NativeDelegates == {"Lambda"}
\* the dynamic delegates, each an (object, function name) pair
DynamicDelegates == {"OnDone"}
\* the policies a program adds a binding with
Policies == {Policy(once, belated) : once, belated \in BOOLEAN}
\* the DefaultPolicy of the event types a program declares
DefaultPolicies == {NoPolicy, Policy(FALSE, TRUE)}
\* the arguments a program broadcasts
BroadcastArgs == {1, 2}

InitEvent ==
    /\ event \in {NewEvent(DefaultPolicy) : DefaultPolicy \in DefaultPolicies}
    /\ nextHandle = 1
    /\ eventCalls = <<>>
    /\ onceHandles = {}
    /\ types = [n \in TypeSlots |-> FType]
    /\ compatible = [pair \in TypeSlots \X TypeSlots |-> Uncalled]
    /\ heap = <<>>
    /\ anys = [i \in Slots |-> Absent]
    /\ anyAliases = [i \in Slots |-> {}]
    /\ comps = [c \in Owners |-> AbsentComposable]
    /\ compAliases = [c \in Owners |-> NoAliases]
    /\ hookCalls = <<>>
    /\ fatal = NoFatal

\* what an Add leaves, r being what AddInternal returned
Added(r, policy) ==
    /\ event' = r.self
    /\ nextHandle' = r.next
    /\ eventCalls' = r.calls
    /\ onceHandles' = IF r.added /\ PolicyWith(policy, event.DefaultPolicy).Once
                      THEN onceHandles \cup {r.handle} ELSE onceHandles
    /\ UNCHANGED <<heap, fatal, anyVars, compVars, typeVars>>

\* the model's room for one more binding and one more handle
Room == nextHandle <= MaxHandles /\ Len(event.MulticastDelegate) < MaxBindings

\* event.Add(From(lambda), policy)
DoAdd(delegate, policy) ==
    /\ Room
    /\ Added(AddInternal(event, nextHandle, delegate, policy, NoHandle, NoType), policy)

\* event.Add(dynamicDelegate, policy)
DoAddDynamic(bound, policy) ==
    /\ Room
    /\ Added(AddInternal(event, nextHandle, bound, policy, NoHandle, bound), policy)

\* event.AddUnique(dynamicDelegate, policy)
DoAddUnique(bound, policy) ==
    /\ Room
    /\ Added(AddUniqueInternal(event, nextHandle, bound, policy, bound), policy)

\* event.Remove(handle)
DoRemove(handle) ==
    /\ event' = RemoveInternal(event, handle)
    /\ eventCalls' = <<>>
    /\ UNCHANGED <<nextHandle, onceHandles, heap, fatal, anyVars, compVars, typeVars>>

\* event.Remove(dynamicDelegate)
DoRemoveDynamic(bound) ==
    /\ event' = RemoveDynamic(event, bound)
    /\ eventCalls' = <<>>
    /\ UNCHANGED <<nextHandle, onceHandles, heap, fatal, anyVars, compVars, typeVars>>

\* event.Reset()
DoReset ==
    /\ event' = EventReset(event)
    /\ eventCalls' = <<>>
    /\ UNCHANGED <<nextHandle, onceHandles, heap, fatal, anyVars, compVars, typeVars>>

\* event.Broadcast(arg)
DoBroadcast(arg) ==
    /\ LET r == Broadcast(event, arg)
       IN  event' = r.self /\ eventCalls' = r.calls
    /\ UNCHANGED <<nextHandle, onceHandles, heap, fatal, anyVars, compVars, typeVars>>

NextEvent ==
    \/ \E bound \in DynamicDelegates, policy \in Policies : DoAddUnique(bound, policy)
    \/ \E delegate \in NativeDelegates, policy \in Policies : DoAdd(delegate, policy)
    \/ \E bound \in DynamicDelegates, policy \in Policies : DoAddDynamic(bound, policy)
    \/ \E handle \in 1..MaxHandles : DoRemove(handle)
    \/ \E bound \in DynamicDelegates : DoRemoveDynamic(bound)
    \/ DoReset
    \/ \E arg \in BroadcastArgs : DoBroadcast(arg)

SpecEvent == InitEvent /\ [][NextEvent]_vars

(* ---------------------------------------------------------------------- *)
(* Properties of FAny, checked under SpecAny                              *)
(* ---------------------------------------------------------------------- *)
\* the types through which a valid FAny is meant to give its payload: its main
\* type, the declared bases of it, and what the program registered
Retrievable(i) ==
    {anys[i].MainType} \cup AllBases(anys[i].MainType) \cup anyAliases[i]

Valid(i) == Exists(i) /\ IsValid(anys[i])

\* the FAny objects that own the payload
OwnersOf(p) == {i \in Slots : Exists(i) /\ anys[i].Storage = p}

\* the calls of a Destruct facility a heap records for a payload
DestructCallsIn(h, p) == h[p].deleteCalls + h[p].removeCalls

DestructCalls(p) == DestructCallsIn(heap, p)

\* the payload came out of the external pool or was made by its copy facility
Pooled(p) == heap[p].madeBy \in {"pool", "stupidPool.Add"}

\* one of the two FAny objects holds a copy of the payload of the other
CopyRelated(i, k) ==
    /\ i # k /\ Valid(i) /\ Valid(k)
    /\ \/ heap[anys[i].Storage].copiedFrom = anys[k].Storage
       \/ heap[anys[k].Storage].copiedFrom = anys[i].Storage

\* C1: a valid FAny that wraps a payload of type T gives that payload, a live
\* object of type T, for TryGet<T>(), and gives nullptr for every type U that is
\* neither T, nor a declared base of T, nor registered through WithAlias / With.
C1_TryGetTypeSafe ==
    \A i \in Slots : Valid(i) =>
        /\ TryGet(anys[i], anys[i].MainType) = anys[i].Storage
        /\ heap[anys[i].Storage].type = anys[i].MainType
        /\ heap[anys[i].Storage].alive
        /\ \A U \in AllTypes : U \notin Retrievable(i) => TryGet(anys[i], U) = nullptr

\* an FAny on which With registered INested alone: it gives the payload for its
\* main type and nullptr for the base of INested and for unrelated types
C1_Witness ==
    \E i \in Slots :
        /\ Valid(i) /\ anys[i].MainType = "FCopyConstructCounter"
        /\ anyAliases[i] = {"INested"}
        /\ TryGet(anys[i], "FCopyConstructCounter") = anys[i].Storage
        /\ TryGet(anys[i], "IBaseA") = nullptr
        /\ TryGet(anys[i], "FVector") = nullptr

\* C2: on a valid FAny wrapping T, every type registered by WithAlias<Base>()
\* (Base and all recursively declared bases of Base) and every recursively declared
\* base of T itself gives the same payload object as TryGet<T>().
C2_AliasesGivePayload ==
    \A i \in Slots : Valid(i) =>
        \A B \in AllBases(anys[i].MainType) \cup anyAliases[i] :
            /\ TryGet(anys[i], B) = TryGet(anys[i], anys[i].MainType)
            /\ TryGet(anys[i], B) # nullptr

\* after WithAlias<INested>() the base IBaseA of INested gives the payload
C2_Witness ==
    \E i \in Slots :
        /\ Valid(i) /\ anys[i].MainType = "FCopyConstructCounter"
        /\ anyAliases[i] = {"INested", "IBaseA"}
        /\ TryGet(anys[i], "INested") = anys[i].Storage
        /\ TryGet(anys[i], "IBaseA") = anys[i].Storage

\* C3: moving a valid FAny S into D hands over the payload pointer, the main type
\* and the alias set, leaves S empty (Storage null, both closures unbound, no
\* aliases) and touches no payload: nothing is allocated, copied, moved or destructed.
C3_MoveTransfersOwnership ==
    [][\A i, j \in Slots : DoMove(i, j) /\ IsValid(anys[j]) =>
          /\ anys'[i].Storage = anys[j].Storage
          /\ TryGet(anys'[i], anys[j].MainType) = anys[j].Storage
          /\ anys'[i].MainType = anys[j].MainType
          /\ anys'[i].ValidTypes = anys[j].ValidTypes
          /\ ~IsValid(anys'[j])
          /\ anys'[j].Storage = nullptr
          /\ ~anys'[j].Destruct.bound /\ ~anys'[j].CopyConstruct.bound
          /\ anys'[j].ValidTypes = {}
          /\ heap' = heap]_vars

\* a wrapped original is owned by another FAny than the one that wrapped it,
\* which is empty now
C3_Witness ==
    \E i \in Slots \ {1} :
        /\ Valid(i) /\ heap[anys[i].Storage].madeBy = "new"
        /\ anys[i].ValidTypes # {anys[i].MainType}
        /\ anys[1] = EmptyAny

\* C4: copying a valid FAny S of a copy-constructible payload calls the copy
\* facility once: the copy owns one new payload made from S's (copy counter plus
\* one), has S's main type and alias set, and S and every older payload are
\* unchanged; and registering aliases on, moving or destroying one of two FAny
\* objects related by a copy leaves the other and its payload unchanged.
C4_CopyIsIndependent ==
    [][/\ \A i, j \in Slots :
             DoCopy(i, j) /\ IsValid(anys[j]) /\ CCopyConstructible(anys[j].MainType) =>
                /\ fatal' = NoFatal
                /\ Len(heap') = Len(heap) + 1
                /\ anys'[i].Storage = Len(heap')
                /\ anys'[i].Storage # anys[j].Storage
                /\ heap'[Len(heap')].copiedFrom = anys[j].Storage
                /\ heap'[Len(heap')].type = anys[j].MainType
                /\ heap'[Len(heap')].alive
                /\ anys[j].MainType = "FCopyConstructCounter" =>
                       heap'[Len(heap')].CopyCount = heap[anys[j].Storage].CopyCount + 1
                /\ anys'[i].MainType = anys[j].MainType
                /\ anys'[i].ValidTypes = anys[j].ValidTypes
                /\ anys'[j] = anys[j]
                /\ \A p \in DOMAIN heap : heap'[p] = heap[p]
       /\ \A i, k \in Slots :
             /\ CopyRelated(i, k)
             /\ \/ \E T \in AliasTypes : DoWithAlias(i, T)
                \/ \E list \in AliasLists : DoWith(i, list)
                \/ \E d \in Slots : DoMove(d, i)
                \/ DoDestroy(i)
             => /\ anys'[k] = anys[k]
                /\ heap'[anys[k].Storage] = heap[anys[k].Storage]]_vars

\* a counted copy next to its source, the two with different alias sets by now
C4_Witness ==
    \E i, k \in Slots :
        /\ CopyRelated(i, k)
        /\ heap[anys[i].Storage].copiedFrom = anys[k].Storage
        /\ heap[anys[i].Storage].type = "FCopyConstructCounter"
        /\ heap[anys[i].Storage].CopyCount = heap[anys[k].Storage].CopyCount + 1
        /\ anys[i].ValidTypes # anys[k].ValidTypes

\* C5 as stated: copying an FAny whose CopyConstruct is unbound or whose payload
\* type is not copy-constructible is fatal.
C5_AsStated ==
    [][\A i, j \in Slots :
          /\ DoCopy(i, j)
          /\ ~anys[j].CopyConstruct.bound \/ ~CCopyConstructible(anys[j].MainType)
          => fatal' # NoFatal]_vars

\* C5, amended: copying a valid FAny whose payload type is not copy-constructible
\* is fatal, names that type and leaves no usable copy; copying an FAny that is
\* not valid (default-constructed, moved-from, wrapping nullptr) is not fatal, calls
\* no facility and gives an empty FAny; no other copy is fatal.
C5_CopyLegality ==
    [][\A i, j \in Slots : DoCopy(i, j) =>
          /\ IsValid(anys[j]) /\ ~CCopyConstructible(anys[j].MainType) =>
                /\ fatal' # NoFatal
                /\ fatal'.type = anys[j].MainType
                /\ ~IsValid(anys'[i])
                /\ heap' = heap
          /\ ~IsValid(anys[j]) =>
                /\ fatal' = NoFatal
                /\ anys'[i] = EmptyAny
                /\ heap' = heap
          /\ fatal' # NoFatal =>
                IsValid(anys[j]) /\ ~CCopyConstructible(anys[j].MainType)]_vars

\* the fatal error of copying an FAny of FCopyForbidden
C5_Witness ==
    /\ fatal.at = "Copy constructor failed"
    /\ fatal.type = "FCopyForbidden"
    /\ \E j \in Slots : Valid(j) /\ anys[j].MainType = "FCopyForbidden"
    /\ \A p \in DOMAIN heap : heap[p].copiedFrom = nullptr

\* C6: in every run of wrap, alias, copy, move and destroy the Destruct facility is
\* called at most once for a payload; a payload that was not destructed has exactly
\* one owner (entries of the pool that were never wrapped have none) and a payload
\* without owner was destructed exactly once; only the destruction of the owner
\* calls it, and destroying an FAny that is not valid destructs nothing.
C6_DestructExactlyOnce ==
    /\ [](\A p \in DOMAIN heap :
            /\ DestructCalls(p) <= 1
            /\ heap[p].alive <=> DestructCalls(p) = 0
            /\ Cardinality(OwnersOf(p)) <= 1
            /\ ~heap[p].alive => OwnersOf(p) = {}
            /\ heap[p].alive /\ heap[p].madeBy # "pool" => OwnersOf(p) # {})
    /\ [][/\ \A i \in Slots : DoDestroy(i) /\ IsValid(anys[i]) =>
                /\ DestructCallsIn(heap', anys[i].Storage) =
                      DestructCallsIn(heap, anys[i].Storage) + 1
                /\ ~heap'[anys[i].Storage].alive
                /\ \A p \in DOMAIN heap \ {anys[i].Storage} : heap'[p] = heap[p]
          /\ \A i \in Slots : DoDestroy(i) /\ ~IsValid(anys[i]) => heap' = heap
          /\ (\A i \in Slots : ~DoDestroy(i)) =>
                \A p \in DOMAIN heap :
                    DestructCallsIn(heap', p) = DestructCallsIn(heap, p)]_vars

\* a copy that was destructed, while its source lives on in a moved-to FAny and
\* the moved-from FAny is around
C6_Witness ==
    \E p \in DOMAIN heap, i \in Slots \ {1} :
        /\ ~heap[p].alive /\ heap[p].deleteCalls = 1
        /\ heap[p].copiedFrom # nullptr
        /\ Valid(i) /\ anys[i].Storage = heap[p].copiedFrom
        /\ anys[1] = EmptyAny

\* C7: an FAny that holds a payload of the pool has the custom facilities, every
\* copy of such a payload was made by the custom CopyConstruct (a new entry of the
\* pool) and has them too, such payloads are destructed by the custom Destruct and
\* never deleted; a copy adds one entry to the pool and a destruction takes one out.
C7_CustomFacilities ==
    /\ [](/\ \A i \in Slots : Valid(i) =>
               /\ anys[i].Destruct.bound /\ anys[i].CopyConstruct.bound
               /\ Pooled(anys[i].Storage) <=> anys[i].Destruct.facilities = "custom"
               /\ Pooled(anys[i].Storage) <=> anys[i].CopyConstruct.facilities = "custom"
          /\ \A p \in DOMAIN heap :
               /\ heap[p].copiedFrom # nullptr =>
                     (Pooled(heap[p].copiedFrom) <=> heap[p].madeBy = "stupidPool.Add")
               /\ Pooled(p) => heap[p].deleteCalls = 0
               /\ Pooled(p) => (heap[p].inPool <=> heap[p].alive)
               /\ ~Pooled(p) => heap[p].removeCalls = 0 /\ ~heap[p].inPool)
    /\ [][\A i, j \in Slots :
            /\ DoCopy(i, j) /\ IsValid(anys[j]) /\ Pooled(anys[j].Storage) =>
                  /\ Cardinality(stupidPool(heap')) = Cardinality(stupidPool(heap)) + 1
                  /\ Len(heap') = Len(heap) + 1
            /\ DoDestroy(i) /\ IsValid(anys[i]) /\ Pooled(anys[i].Storage) =>
                  /\ Cardinality(stupidPool(heap')) = Cardinality(stupidPool(heap)) - 1
                  /\ anys[i].Storage \notin stupidPool(heap')]_vars

\* the pool after an entry was wrapped and copied and both were destroyed
C7_Witness ==
    /\ Cardinality(stupidPool(heap)) = InitialPoolSize - 1
    /\ \E p \in DOMAIN heap :
          /\ heap[p].madeBy = "stupidPool.Add" /\ heap[p].removeCalls = 1
          /\ heap[heap[p].copiedFrom].madeBy = "pool"
          /\ heap[heap[p].copiedFrom].removeCalls = 1

(* ---------------------------------------------------------------------- *)
(* Properties of IComposable, checked under SpecComp                      *)
(* ---------------------------------------------------------------------- *)
\* the exact types of the components a composable holds
ExactTypes(c) == MapKeys(comps[c].Components)

\* the payload of the component stored under an exact type
ComponentOf(self, K) == MapFind(self.Components, K).Storage

\* T was registered as an alias of the component of exact type K: it is a
\* declared base of K or the program registered it while K was the last added
AliasOf(c, T, K) == T \in AllBases(K) \cup compAliases[c].of[K]

AliasOfAnother(c, T) == \E K \in ExactTypes(c) \ {T} : AliasOf(c, T, K)

\* the components GetComponents<T>() is meant to yield
Matching(c, T) ==
    {ComponentOf(comps[c], K) : K \in {K \in ExactTypes(c) : K = T \/ AliasOf(c, T, K)}}

\* C8: AddComponent<T> on a composable that holds a component of exact type T is
\* fatal, and at the fatal error every composable is as it was before the call and
\* no hook was called; so Components never holds two components of one exact type,
\* and an AddComponent<T> that is not fatal found no component of type T.
C8_OneComponentPerType ==
    /\ [](\A c \in Owners : \A n, m \in DOMAIN comps[c].Components :
             comps[c].Components[n].key = comps[c].Components[m].key => n = m)
    /\ [][\A c \in Owners, T \in ComponentTypes : DoAddComponent(c, T) =>
             /\ HasExactComponent(comps[c], T) =>
                   /\ fatal'.at = "another component already exists under that type"
                   /\ fatal'.type = T
                   /\ comps' = comps
                   /\ hookCalls' = <<>>
             /\ ~HasExactComponent(comps[c], T) =>
                   /\ fatal' = NoFatal
                   /\ Len(comps'[c].Components) = Len(comps[c].Components) + 1]_vars

\* the fatal error of a second FDeepComponent on a composable that holds two components
C8_Witness ==
    /\ fatal.at = "another component already exists under that type"
    /\ fatal.type = "FDeepComponent"
    /\ \E c \in Owners :
          /\ Composed(c)
          /\ ExactTypes(c) = {"FComponentA", "FDeepComponent"}
          /\ heap[ComponentOf(comps[c], "FDeepComponent")].alive

\* C9: for every exact type T a composable holds a component of, TryGet<T>() gives
\* the pointer that was passed to AddComponent<T> (when T is not also an alias of
\* another component), whatever was added or registered before or after it: an
\* added component is stored under its type with the passed pointer, and no later
\* AddComponent, AddAlias or lookup changes what is stored for the others.
C9_TryGetExact ==
    /\ [](\A c \in Owners, T \in ComponentTypes :
             T \in ExactTypes(c) /\ ~AliasOfAnother(c, T) =>
                /\ ComposableTryGet(comps[c], T) = ComponentOf(comps[c], T)
                /\ ComposableTryGet(comps[c], T) # nullptr
                /\ heap[ComposableTryGet(comps[c], T)].type = T)
    /\ [][/\ \A c \in Owners, T \in ComponentTypes :
                DoAddComponent(c, T) /\ fatal' = NoFatal =>
                   /\ ComponentOf(comps'[c], T) = Len(heap)  + 1
                   /\ heap'[Len(heap) + 1] = NewPayload(T, FALSE)
          /\ \A c \in Owners, K \in ComponentTypes :
                /\ K \in ExactTypes(c)
                /\ \/ \E T \in ComponentTypes : DoAddComponent(c, T)
                   \/ \E pack \in AliasPacks : DoAddAlias(c, pack)
                   \/ \E T \in QueryTypes : DoGetComponents(c, T)
                => /\ K \in MapKeys(comps'[c].Components)
                   /\ ComponentOf(comps'[c], K) = ComponentOf(comps[c], K)]_vars

\* three components of distinct types, an alias registered on the first before
\* the others were added, each found under its own type
C9_Witness ==
    \E c \in Owners :
        /\ fatal = NoFatal
        /\ ExactTypes(c) = ComponentTypes
        /\ comps[c].Components[1].key = "FComponentA"
        /\ compAliases[c].of["FComponentA"] = {"INestedInterface", "IComponentInterface"}
        /\ \A T \in ComponentTypes :
              /\ ComposableTryGet(comps[c], T) = ComponentOf(comps[c], T)
              /\ heap[ComposableTryGet(comps[c], T)].madeBy = "new"
        /\ Cardinality({ComposableTryGet(comps[c], T) : T \in ComponentTypes}) = 3

\* C10: GetComponents<T>() yields exactly the components whose exact type is T or
\* of which T was registered as an alias (a recursively declared base of the
\* component's type, or a type registered through AddAlias / WithAlias / With, or a
\* declared base of such a type, while the component was the last added): none is
\* missing, no other is returned; while only declared bases are registered, k
\* components declaring an interface give exactly k results for it.
C10_GetComponentsExact ==
    \A c \in Owners, T \in QueryTypes :
        /\ Range(GetComponents(comps[c], T)) = Matching(c, T)
        /\ (\A K \in ComponentTypes : compAliases[c].of[K] = {}) =>
               Len(GetComponents(comps[c], T)) = Cardinality(Matching(c, T))

\* three components give three results for the interface: two declare it and
\* the third had a type registered that declares it
C10_Witness ==
    \E c \in Owners :
        /\ fatal = NoFatal
        /\ ExactTypes(c) = ComponentTypes
        /\ Cardinality(Range(GetComponents(comps[c], "IComponentInterface"))) = 3
        /\ Cardinality(Range(GetComponents(comps[c], "INestedInterface"))) = 2
        /\ Len(GetComponents(comps[c], "FAwareComponent")) = 1
        /\ GetComponents(comps[c], "FVector") = <<>>

\* C11: AddAlias / WithAlias / With(TTypes) on a composable that holds no component
\* (freshly constructed, or moved from) is fatal, and at the fatal error no
\* composable, alias list or component has changed; on a composable that holds
\* components it is not fatal.
C11_AliasNeedsComponent ==
    [][\A c \in Owners, pack \in AliasPacks : DoAddAlias(c, pack) =>
          /\ comps[c].Components = <<>> =>
                /\ fatal'.at = "no components were added before"
                /\ comps' = comps
                /\ heap' = heap
          /\ comps[c].Components # <<>> => fatal' = NoFatal]_vars

\* the fatal error of an alias on a moved-from composable, next to the composable
\* that took its components
C11_Witness ==
    /\ fatal.at = "no components were added before"
    /\ \E c, d \in Owners :
          /\ Composed(c) /\ comps[c].Components = <<>>
          /\ comps[c].Self = "FComposableHooked" /\ ~comps[c].OnComponentAdded
          /\ comps[c].LastAddedComponentHash = NoType
          /\ Composed(d) /\ comps[d].Components # <<>>
          /\ comps[d].OnComponentAdded

\* C12: AddAlias<X>() registers X for the most recently added component only: the
\* composable's LastAddedComponentHash names the component added last (through
\* copies and moves too); after the call GetComponents<X>() contains that
\* component and its FAny gives it for X, every other component's FAny is as it
\* was, and a component that did not accept X before is not among the results for
\* X; AddAlias does not change which component is the last added.
C12_AliasForLastAdded ==
    /\ [](\A c \in Owners :
             Composed(c) => comps[c].LastAddedComponentHash = compAliases[c].last)
    /\ [][\A c \in Owners, pack \in AliasPacks :
             DoAddAlias(c, pack) /\ fatal' = NoFatal =>
                LET last == compAliases[c].last
                IN  /\ last \in ExactTypes(c)
                    /\ comps'[c].LastAddedComponentHash = last
                    /\ \A n \in DOMAIN pack :
                          /\ ComponentOf(comps[c], last)
                                \in Range(GetComponents(comps'[c], pack[n]))
                          /\ TryGet(MapFind(comps'[c].Components, last), pack[n])
                                = ComponentOf(comps[c], last)
                    /\ \A K \in ExactTypes(c) \ {last} :
                          /\ MapFind(comps'[c].Components, K)
                                = MapFind(comps[c].Components, K)
                          /\ \A n \in DOMAIN pack :
                                /\ K # pack[n]
                                /\ TryGet(MapFind(comps[c].Components, K), pack[n]) = nullptr
                                => ComponentOf(comps[c], K)
                                      \notin Range(GetComponents(comps'[c], pack[n]))]_vars

\* FComponentA, then FAwareComponent, then AddAlias<INestedInterface>: the
\* interface gives the second component alone
C12_Witness ==
    \E c \in Owners :
        /\ fatal = NoFatal
        /\ MapKeys(comps[c].Components) = {"FComponentA", "FAwareComponent"}
        /\ comps[c].Components[1].key = "FComponentA"
        /\ compAliases[c].of["FAwareComponent"] = {"INestedInterface", "IComponentInterface"}
        /\ GetComponents(comps[c], "INestedInterface")
              = <<ComponentOf(comps[c], "FAwareComponent")>>
        /\ TryGet(MapFind(comps[c].Components, "FComponentA"), "INestedInterface") = nullptr

\* the calls of one hook among the calls of the last operation
CallsOf(calls, hook) == SelectSeq(calls, LAMBDA call : call.hook = hook)

\* the copy-aware (move-aware) components a composable holds
CopyAware(self) ==
    {K \in MapKeys(self.Components) : CCopyAwareComponent(K, self.Self)}

MoveAware(self) ==
    {K \in MapKeys(self.Components) : CMoveAwareComponent(K, self.Self)}

\* C13 as stated: copy-constructing a composable C from S calls OnCopiedAt exactly
\* once for every copy-aware component of S: on the component C holds now, with C
\* as the new owner and S's component of the same type as the source.
C13_AsStated ==
    [][\A d, c \in Owners : DoCopyComposable(d, c) /\ fatal' = NoFatal =>
          LET calls == CallsOf(hookCalls', "OnCopiedAt")
          IN  /\ Len(calls) = Cardinality(CopyAware(comps[c]))
              /\ \A K \in CopyAware(comps[c]) :
                    \E n \in DOMAIN calls :
                        /\ calls[n].on = ComponentOf(comps'[d], K)
                        /\ calls[n].parent = d
                        /\ calls[n].from = ComponentOf(comps[c], K)]_vars

\* C14 as stated: move-constructing a composable D from S calls OnMovedAt exactly once for
\* every move-aware component, with D as the new owner, and calls no other hook;
\* afterwards S has no component, no alias entry, no logistics entry and
\* LastAddedComponentHash = 0, D answers every GetComponents / TryGet query with
\* the pointers S gave before, and no payload was created, changed or destructed.
C14_AsStated ==
    [][\A d, c \in Owners : DoMoveComposable(d, c) =>
          LET calls == CallsOf(hookCalls', "OnMovedAt")
          IN  /\ Len(calls) = Cardinality(MoveAware(comps[c]))
              /\ Len(hookCalls') = Len(calls)
              /\ \A K \in MoveAware(comps[c]) :
                    Cardinality({n \in DOMAIN calls :
                                    heap[calls[n].on].type = K /\ calls[n].parent = d}) = 1
              /\ comps'[c].Components = <<>>
              /\ comps'[c].ComponentAliases = <<>>
              /\ comps'[c].ComponentLogistics = <<>>
              /\ comps'[c].LastAddedComponentHash = NoType
              /\ \A T \in QueryTypes :
                    /\ GetComponents(comps'[d], T) = GetComponents(comps[c], T)
                    /\ ComposableTryGet(comps'[d], T) = ComposableTryGet(comps[c], T)
              /\ heap' = heap
              /\ fatal' = NoFatal]_vars

\* C15 as stated: when a composable is move-constructed, every OnMovedAt call is on
\* a live component that the new owner holds after the move, whatever the history
\* of the moved composable.
C15_AsStated ==
    [][\A d, c \in Owners : DoMoveComposable(d, c) =>
          \A n \in DOMAIN hookCalls' :
              hookCalls'[n].hook = "OnMovedAt" =>
                 /\ heap[hookCalls'[n].on].alive
                 /\ \E K \in MapKeys(comps'[d].Components) :
                       hookCalls'[n].on = ComponentOf(comps'[d], K)]_vars

\* C16: an AddComponent<T> that is not fatal calls OnCreatedAt exactly once, on the
\* new component and with the composable it is added to, when T is an explicit
\* component whose OnCreatedAt takes that owner type (FDeepComponent and
\* FAwareComponent take a FComposableSimple&); on another owner type the component
\* is added and retrievable and the hook is not called; a fatal AddComponent and
\* every other operation (AddAlias, lookups, copy, move, destruction) call no
\* OnCreatedAt.
C16_OnCreatedAtOnce ==
    [][/\ \A c \in Owners, T \in ComponentTypes :
             DoAddComponent(c, T) /\ fatal' = NoFatal =>
                /\ CallsOf(hookCalls', "OnCreatedAt") =
                      IF /\ T \in {"FDeepComponent", "FAwareComponent"}
                         /\ comps[c].Self \in {"FComposableSimple", "FComposableHooked"}
                      THEN <<HookCall("OnCreatedAt", Len(heap) + 1, c, nullptr)>>
                      ELSE <<>>
                /\ ComposableTryGet(comps'[c], T) = Len(heap) + 1
       /\ (\A c \in Owners, T \in ComponentTypes :
              ~(DoAddComponent(c, T) /\ fatal' = NoFatal))
          => CallsOf(hookCalls', "OnCreatedAt") = <<>>]_vars

\* right after FDeepComponent was added as the second component of a FComposableSimple
C16_Witness ==
    \E c \in Owners :
        /\ comps[c].Self = "FComposableSimple"
        /\ Len(comps[c].Components) = 2
        /\ comps[c].LastAddedComponentHash = "FDeepComponent"
        /\ hookCalls = <<HookCall("OnCreatedAt", ComponentOf(comps[c], "FDeepComponent"),
                                  c, nullptr)>>

\* C17: within an AddComponent<T> that is not fatal the owner's OnComponentAdded
\* hook runs once if it is bound (and not otherwise), before T's OnCreatedAt; when
\* the hooks run the component is stored and the aliases of T's declared bases are
\* registered, so it is retrievable by its exact type and by each declared base, and
\* the call leaves these registrations as the hooks found them; no other operation
\* (AddAlias / WithAlias among them) runs OnComponentAdded.
C17_AddComponentOrder ==
    [][/\ \A c \in Owners, T \in ComponentTypes :
             DoAddComponent(c, T) /\ fatal' = NoFatal =>
                LET ptr == Len(heap) + 1
                    atHooks == AddComponentRegister(comps[c], ptr, T, "default")
                    added == CallsOf(hookCalls', "OnComponentAdded")
                IN  /\ added = IF comps[c].OnComponentAdded
                               THEN <<HookCall("OnComponentAdded", ptr, c, nullptr)>>
                               ELSE <<>>
                    /\ hookCalls' = added \o CallsOf(hookCalls', "OnCreatedAt")
                    /\ ComposableTryGet(atHooks, T) = ptr
                    /\ \A B \in {T} \cup AllBases(T) :
                          ptr \in Range(GetComponents(atHooks, B))
                    /\ atHooks.LastAddedComponentHash = T
                    /\ comps'[c].Components = atHooks.Components
                    /\ comps'[c].ComponentAliases = atHooks.ComponentAliases
       /\ (\A c \in Owners, T \in ComponentTypes :
              ~(DoAddComponent(c, T) /\ fatal' = NoFatal))
          => CallsOf(hookCalls', "OnComponentAdded") = <<>>]_vars

\* right after FDeepComponent was added to a composable that binds
\* OnComponentAdded: both hooks ran, in this order
C17_Witness ==
    \E c \in Owners :
        /\ comps[c].OnComponentAdded
        /\ comps[c].LastAddedComponentHash = "FDeepComponent"
        /\ Len(hookCalls) = 2
        /\ hookCalls[1].hook = "OnComponentAdded"
        /\ hookCalls[2].hook = "OnCreatedAt"
        /\ hookCalls[1].on = ComponentOf(comps[c], "FDeepComponent")
        /\ hookCalls[1].on \in Range(GetComponents(comps[c], "IComponentInterface"))

\* C18: in every state of a composable (empty, populated, copied, moved-from) a
\* lookup never meets a missing entry, GetComponents<T>() never yields nullptr, and
\* for a type T that is neither an exact component type nor a registered alias
\* GetComponents<T>() is empty and TryGet<T>() is nullptr.
C18_LookupMiss ==
    \A c \in Owners, T \in QueryTypes : Composed(c) =>
        /\ \A key \in Range(GetComponentsDynamic(comps[c], T)[1]) :
              MapContains(comps[c].Components, key)
        /\ nullptr \notin Range(GetComponents(comps[c], T))
        /\ (T \notin ExactTypes(c) /\ \A K \in ExactTypes(c) : ~AliasOf(c, T, K)) =>
               /\ GetComponents(comps[c], T) = <<>>
               /\ ComposableTryGet(comps[c], T) = nullptr

\* a moved-from composable and the populated one that took its components, both
\* asked for types they do not hold
C18_Witness ==
    \E c, d \in Owners :
        /\ fatal = NoFatal
        /\ Composed(c) /\ comps[c].Components = <<>>
        /\ comps[c].Self = "FComposableHooked" /\ ~comps[c].OnComponentAdded
        /\ ComposableTryGet(comps[c], "FComponentA") = nullptr
        /\ MapKeys(comps[d].Components) = {"FComponentA", "FAwareComponent"}
        /\ GetComponents(comps[d], "FVector") = <<>>
        /\ ComposableTryGet(comps[d], "INestedInterface") = nullptr
        /\ ComposableTryGet(comps[d], "FDeepComponent") = nullptr

\* C19: a GetComponents<T>() call leaves the composable such that the next
\* GetComponents<U>() call, for T and for every other type U, gives the same
\* pointers (in the same order) as it would have given before; the call changes no
\* component and no payload.
C19_GetComponentsTwice ==
    [][\A c \in Owners, T \in QueryTypes : DoGetComponents(c, T) =>
          /\ \A U \in QueryTypes :
                GetComponents(comps'[c], U) = GetComponents(comps[c], U)
          /\ comps'[c].Components = comps[c].Components
          /\ heap' = heap
          /\ fatal' = NoFatal]_vars

\* a composable whose interface gives two components through the alias lists, as
\* a lookup leaves it: no hook ran in the last operation
C19_Witness ==
    \E c \in Owners :
        /\ fatal = NoFatal /\ hookCalls = <<>>
        /\ comps[c].Self = "FComposableSimple"
        /\ MapKeys(comps[c].Components) = {"FDeepComponent", "FAwareComponent"}
        /\ Len(GetComponents(comps[c], "IComponentInterface")) = 2
        /\ GetComponentsEffect(comps[c], "IComponentInterface") = comps[c]
        /\ \A o \in Owners \ {c} : ~Composed(o)

(* ---------------------------------------------------------------------- *)
(* Properties of FType, checked under SpecType                            *)
(* ---------------------------------------------------------------------- *)
\* the base hashes an identity has recorded
RecordedBases(self) == {self.BaseTypeHashes[k] : k \in 1..self.BaseCount}

\* C20: a.IsCompatibleWith(b) is true exactly when the hashes are equal, or a's
\* hash is among the base hashes b recorded, or b's hash is among those a
\* recorded; an identity is compatible with itself, and a.IsCompatibleWith(b)
\* equals b.IsCompatibleWith(a).
C20_IsCompatibleWith ==
    \A a, b \in TypeSlots :
        /\ compatible[<<a, b>>].called =>
              compatible[<<a, b>>].result =
                  \/ types[a].Hash = types[b].Hash
                  \/ types[a].Hash \in RecordedBases(types[b])
                  \/ types[b].Hash \in RecordedBases(types[a])
        /\ compatible[<<a, a>>].called => compatible[<<a, a>>].result
        /\ compatible[<<a, b>>].called /\ compatible[<<b, a>>].called =>
              compatible[<<a, b>>].result = compatible[<<b, a>>].result

\* a derived type and one of its bases, asked both ways round, and the derived
\* type asked about itself
C20_Witness ==
    /\ types[1].Hash # types[2].Hash
    /\ types[2].Hash \in RecordedBases(types[1])
    /\ types[1].Hash \notin RecordedBases(types[2])
    /\ compatible[<<1, 2>>] = [called |-> TRUE, result |-> TRUE]
    /\ compatible[<<2, 1>>] = [called |-> TRUE, result |-> TRUE]
    /\ compatible[<<1, 1>>] = [called |-> TRUE, result |-> TRUE]

(* ---------------------------------------------------------------------- *)
(* Further properties of FAny, checked under SpecAny                      *)
(* ---------------------------------------------------------------------- *)
\* C21 as stated: the ValidTypes of every FAny, the default-constructed and
\* moved-from ones included, contain its MainType and every declared base of it.
C21_AsStated ==
    \A i \in Slots : Exists(i) =>
        {anys[i].MainType} \cup AllBases(anys[i].MainType) \subseteq anys[i].ValidTypes

\* C21, amended: the ValidTypes of an FAny whose MainType is a valid identity
\* contain the MainType and every declared base of it, of its bases, and so on;
\* an FAny whose MainType is FType{} (default-constructed, moved-from, the copy of
\* one that is not valid) has no valid type but those the program registered on it
\* since, and FType{} is not among them.
C21_ValidTypesOfMainType ==
    \A i \in Slots : Exists(i) =>
        IF anys[i].MainType # NoType
        THEN {anys[i].MainType} \cup AllBases(anys[i].MainType) \subseteq anys[i].ValidTypes
        ELSE NoType \notin anys[i].ValidTypes /\ anys[i].ValidTypes \subseteq anyAliases[i]

\* a moved-from FAny next to the target of the move, which wraps a type with a
\* base that has a base of its own, and a copy of that target
C21_Witness ==
    \E i, j, k \in Slots :
        /\ i # j /\ j # k /\ i # k
        /\ anys[i] = EmptyAny
        /\ Valid(j) /\ j # 1 /\ anys[j].MainType = "FNested"
        /\ {"FNested", "INested", "IBaseA", "IBaseB"} \subseteq anys[j].ValidTypes
        /\ Valid(k) /\ anys[k].ValidTypes = anys[j].ValidTypes
        /\ heap[anys[k].Storage].copiedFrom # nullptr

(* ---------------------------------------------------------------------- *)
(* Further properties of IComposable, checked under SpecComp              *)
(* ---------------------------------------------------------------------- *)
\* the sequence holds no value twice
NoDuplicates(s) == \A m, n \in DOMAIN s : s[m] = s[n] => m = n

\* C22 as stated: no alias list of a composable holds a component type twice, and
\* GetComponents<T>() yields no component twice, for every type T.
C22_AsStated ==
    \A c \in Owners : Composed(c) =>
        /\ \A n \in DOMAIN comps[c].ComponentAliases :
              NoDuplicates(comps[c].ComponentAliases[n].value)
        /\ \A T \in QueryTypes : NoDuplicates(GetComponents(comps[c], T))

\* what a copy construction of d from c gives, whatever became of the process
CopyGives(d, c) ==
    /\ MapKeys(comps'[d].Components) = MapKeys(comps[c].Components)
    /\ comps'[d].ComponentAliases = comps[c].ComponentAliases
    /\ \A T \in QueryTypes :
          Len(GetComponents(comps'[d], T)) = Len(GetComponents(comps[c], T))
    /\ \A n \in DOMAIN comps[c].Components :
          LET from == comps[c].Components[n].value.Storage
              made == comps'[d].Components[n].value.Storage
          IN  /\ made \notin DOMAIN heap /\ made \in DOMAIN heap'
              /\ made # from
              /\ heap'[made].copiedFrom = from
              /\ heap'[made].type = heap[from].type
              /\ heap'[made].alive
    /\ comps'[c] = comps[c]
    /\ \A p \in DOMAIN heap : heap'[p] = heap[p]

\* an AddComponent or AddAlias on one composable changes no other composable
AddsAreLocal ==
    \A c \in Owners :
        (\/ \E T \in ComponentTypes : DoAddComponent(c, T)
         \/ \E pack \in AliasPacks : DoAddAlias(c, pack))
        => \A o \in Owners \ {c} : comps'[o] = comps[o]

\* C23 as stated: copy-constructing a composable from one whose components are all
\* copyable completes and gives the copy the keys and alias lookups of the source,
\* each backed by a new payload made by the component's copy facility, and leaves
\* the source as it was; later additions to either do not change the other.
C23_AsStated ==
    [][/\ \A d, c \in Owners : DoCopyComposable(d, c) =>
             fatal' = NoFatal /\ CopyGives(d, c)
       /\ AddsAreLocal]_vars

(* ---------------------------------------------------------------------- *)
(* Properties of TEventDelegate, checked under SpecEvent                  *)
(* ---------------------------------------------------------------------- *)
\* the handles of the bindings the event holds
Handles(self) == {self.MulticastDelegate[n].handle : n \in DOMAIN self.MulticastDelegate}

\* the delegate has a binding in the event
IsBound(self, delegate) ==
    \E n \in DOMAIN self.MulticastDelegate : self.MulticastDelegate[n].delegate = delegate

\* the executions among `calls` that satisfy Test
CountCalls(calls, Test(_)) == Cardinality({n \in DOMAIN calls : Test(calls[n])})

\* the bindings of a delegate that the event holds
CountBindings(self, delegate) ==
    Cardinality({n \in DOMAIN self.MulticastDelegate :
                    self.MulticastDelegate[n].delegate = delegate})

\* an Add with this policy is to leave a binding behind: it is not the belated
\* one-time call
Keeps(policy) ==
    LET actual == PolicyWith(policy, event.DefaultPolicy)
    IN  ~(event.bHasBroadcasted /\ actual.Belated /\ actual.Once)

\* the step added a binding of the delegate, with a new handle, marked Once or not
NewBinding(delegate, once) ==
    \E n \in DOMAIN event'.MulticastDelegate :
        LET b == event'.MulticastDelegate[n]
        IN  /\ b.delegate = delegate
            /\ b.handle \notin Handles(event) /\ b.handle >= nextHandle
            /\ (b.handle \in onceHandles') = once

\* every Add of a delegate that is to be kept adds a binding for it, AddUnique
\* when the delegate has no binding yet
AddsBind ==
    \A policy \in Policies :
        LET once == PolicyWith(policy, event.DefaultPolicy).Once
        IN  /\ \A d \in NativeDelegates :
                  DoAdd(d, policy) /\ Keeps(policy) => NewBinding(d, once)
            /\ \A d \in DynamicDelegates :
                  /\ DoAddDynamic(d, policy) /\ Keeps(policy) => NewBinding(d, once)
                  /\ DoAddUnique(d, policy) /\ Keeps(policy) /\ ~IsBound(event, d)
                        => NewBinding(d, once)

\* a Broadcast executes every binding once with its argument, then drops the
\* bindings added with Once and keeps the others
BroadcastCallsEach ==
    \A arg \in BroadcastArgs : DoBroadcast(arg) =>
        /\ \A d \in NativeDelegates \cup DynamicDelegates :
              CountCalls(eventCalls', LAMBDA e : e.delegate = d) = CountBindings(event, d)
        /\ \A n \in DOMAIN eventCalls' :
              eventCalls'[n].arg = arg /\ eventCalls'[n].by = "Broadcast"
        /\ Handles(event') = Handles(event) \ onceHandles
        /\ \A n \in DOMAIN event'.MulticastDelegate :
              \E m \in DOMAIN event.MulticastDelegate :
                  event'.MulticastDelegate[n] = event.MulticastDelegate[m]

\* no Add takes a binding away or changes it, and no handle is given twice
AddsKeep ==
    (\E policy \in Policies :
        \/ \E d \in NativeDelegates : DoAdd(d, policy)
        \/ \E d \in DynamicDelegates : DoAddDynamic(d, policy) \/ DoAddUnique(d, policy))
    => \A m \in DOMAIN event.MulticastDelegate :
          event'.MulticastDelegate[m] = event.MulticastDelegate[m]

\* C24 as stated: a binding added with Once (not as the belated one-time call) is
\* bound until the next Broadcast, which executes it once and removes it for good;
\* a binding added without Once is executed by every Broadcast until it is removed.
C24_AsStated ==
    [][AddsBind /\ BroadcastCallsEach /\ AddsKeep]_vars

\* what a belated Add does, for an Add that is to add a binding when it keeps one
BelatedAdd(delegate, policy, adds) ==
    LET actual == PolicyWith(policy, event.DefaultPolicy)
    IN  actual.Belated =>
            IF event.bHasBroadcasted
            THEN /\ eventCalls' = <<Execution(delegate, event.Cache, "CallBelated")>>
                 /\ event.Cache \in BroadcastArgs
                 /\ IF actual.Once
                    THEN event' = event /\ nextHandle' = nextHandle
                    ELSE adds => NewBinding(delegate, FALSE)
            ELSE /\ eventCalls' = <<>>
                 /\ adds => NewBinding(delegate, actual.Once)

BelatedAdds ==
    \A policy \in Policies :
        /\ \A d \in NativeDelegates : DoAdd(d, policy) => BelatedAdd(d, policy, TRUE)
        /\ \A d \in DynamicDelegates :
              /\ DoAddDynamic(d, policy) => BelatedAdd(d, policy, TRUE)
              /\ DoAddUnique(d, policy) => BelatedAdd(d, policy, ~IsBound(event, d))

\* the cache holds the argument of the most recent Broadcast, and nothing after a
\* Reset
CacheIsLastBroadcast ==
    /\ \A arg \in BroadcastArgs : DoBroadcast(arg) =>
          event'.bHasBroadcasted /\ event'.Cache = arg
    /\ DoReset => ~event'.bHasBroadcasted /\ event'.Cache = NoCache
    /\ (~DoReset /\ ~\E arg \in BroadcastArgs : DoBroadcast(arg)) =>
          /\ event'.Cache = event.Cache
          /\ event'.bHasBroadcasted = event.bHasBroadcasted

\* C25 as stated: a Belated binding added after a Broadcast (with no Reset since) is
\* executed at once, one time, with the arguments of the most recent Broadcast, and
\* is bound for the later ones; with Once too it is executed at once and not kept;
\* added before the first Broadcast it is not executed by the Add.
C25_AsStated ==
    [][BelatedAdds /\ CacheIsLastBroadcast /\ BroadcastCallsEach]_vars

\* C27: in every reachable state every hash in an alias list is a key of Components
\* and no alias list is empty, so the pruning in HasComponentAlias drops nothing:
\* each step of a lookup leaves ComponentAliases as it is, and a lookup leaves the
\* whole composable, the payloads and the other composables unchanged.  Lookups
\* that run interleaved therefore see the state that lookups run one after another
\* see.
C27_LookupsReadOnly ==
    /\ [](\A c \in Owners : Composed(c) =>
             \A n \in DOMAIN comps[c].ComponentAliases :
                 LET list == comps[c].ComponentAliases[n].value
                 IN  /\ list # <<>>
                     /\ \A m \in DOMAIN list : MapContains(comps[c].Components, list[m]))
    /\ [](\A c \in Owners, T \in QueryTypes : Composed(c) =>
             /\ HasComponentAlias(comps[c], T)[2] = comps[c].ComponentAliases
             /\ GetAliasedComponents(comps[c], T)[2] = comps[c].ComponentAliases
             /\ GetComponentsEffect(comps[c], T) = comps[c])
    /\ [][\A c \in Owners, T \in QueryTypes : DoGetComponents(c, T) =>
             comps' = comps /\ heap' = heap /\ fatal' = fatal]_vars

\* a moved-from composable next to the one that took its components and alias
\* lists, as lookups leave them
C27_Witness ==
    \E c, d \in Owners :
        /\ c # d /\ fatal = NoFatal /\ hookCalls = <<>>
        /\ Composed(c) /\ comps[c].Components = <<>> /\ comps[c].ComponentAliases = <<>>
        /\ comps[c].Self = "FComposableHooked" /\ ~comps[c].OnComponentAdded
        /\ Composed(d) /\ Len(comps[d].Components) = 2
        /\ \E n \in DOMAIN comps[d].ComponentAliases :
              Len(comps[d].ComponentAliases[n].value) = 2
        /\ \A T \in QueryTypes : GetComponentsEffect(comps[d], T) = comps[d]

(* ---------------------------------------------------------------------- *)
(* Properties of IComposable with hooks that add components, checked      *)
(* under SpecSpawn                                                        *)
(* ---------------------------------------------------------------------- *)
\* C26 as stated: when AddComponent<T> returns, LastAddedComponentHash is the hash
\* of T, and so it is when T's OnCreatedAt added a component to the composable.
C26_AsStated ==
    [][\A c \in Owners, T \in SpawnTypes :
          DoAddComponent(c, T) /\ fatal' = NoFatal =>
              comps'[c].LastAddedComponentHash = T]_vars

(* ---------------------------------------------------------------------- *)
(* Further properties of FType, checked under SpecType                    *)
(* ---------------------------------------------------------------------- *)
RECURSIVE VisitFrom(_)
\* a type, then for each of its declared bases in turn what VisitFrom gives for it
VisitFrom(T) ==
    LET Each[n \in 0..Len(Bases(T))] ==
            IF n = 0 THEN <<>> ELSE Each[n - 1] \o VisitFrom(Bases(T)[n])
    IN  <<T>> \o Each[Len(Bases(T))]

\* the bases the walk over the declared bases of T visits, in visiting order
Visited(T) == Tail(VisitFrom(T))

\* the type an identity was made for
TypeOf(self) == CHOOSE T \in Range(TypeNames) : self.Name = T

\* C28: an identity records the first MaxBaseCount (64) hashes the walk over the
\* declared bases visits, in visiting order, and drops the others: BaseCount is
\* the smaller of 64 and the number of visits, the array has 64 entries, and
\* IsCompatibleWith answers from the recorded entries alone.
C28_BaseCapacity ==
    \A a \in TypeSlots :
        /\ types[a].BaseCount <= MaxBaseCount
        /\ DOMAIN types[a].BaseTypeHashes = 1..MaxBaseCount
        /\ types[a] = FType => types[a].BaseCount = 0
        /\ types[a] # FType =>
              LET walk == Visited(TypeOf(types[a]))
              IN  /\ types[a].BaseCount =
                        IF Len(walk) <= MaxBaseCount THEN Len(walk) ELSE MaxBaseCount
                  /\ \A k \in 1..types[a].BaseCount :
                        types[a].BaseTypeHashes[k] = TTypeHash(walk[k])
        /\ \A b \in TypeSlots : compatible[<<a, b>>].called =>
              compatible[<<a, b>>].result =
                  \/ types[a].Hash = types[b].Hash
                  \/ \E k \in 1..types[b].BaseCount :
                        types[b].BaseTypeHashes[k] = types[a].Hash
                  \/ \E k \in 1..types[a].BaseCount :
                        types[a].BaseTypeHashes[k] = types[b].Hash

\* FLattice, whose walk visits 79 bases: 64 are recorded, the base visited last
\* is not, and IsCompatibleWith does not find it
C28_Witness ==
    /\ types[1].Name = "FLattice" /\ types[2].Name = "IDropped"
    /\ Len(Visited("FLattice")) = 79
    /\ Visited("FLattice")[79] = "IDropped"
    /\ types[1].BaseCount = MaxBaseCount
    /\ types[1].BaseTypeHashes[MaxBaseCount] = TTypeHash("ILevel3A")
    /\ compatible[<<1, 2>>] = [called |-> TRUE, result |-> FALSE]
    /\ compatible[<<2, 1>>] = [called |-> TRUE, result |-> FALSE]

(* ---------------------------------------------------------------------- *)
(* Further properties of IComposable, checked under SpecComp              *)
(* ---------------------------------------------------------------------- *)
\* C29: in every composable every key of ComponentLogistics is a key of
\* Components, the entry under a key was made for the component type of that key
\* in the owner's class, that type defines OnCopiedAt or OnMovedAt for the class,
\* and no copy notification has missed the source component of an entry.
C29_LogisticsHaveComponents ==
    /\ \A c \in Owners :
          /\ MapKeys(comps[c].ComponentLogistics) \subseteq MapKeys(comps[c].Components)
          /\ \A n \in DOMAIN comps[c].ComponentLogistics :
                LET entry == comps[c].ComponentLogistics[n]
                IN  /\ entry.value.MainType = entry.key
                    /\ entry.value.Self = comps[c].Self
                    /\ \/ CCopyAwareComponent(entry.key, comps[c].Self)
                       \/ CMoveAwareComponent(entry.key, comps[c].Self)
    /\ fatal.at # "TMap::FindChecked"

\* the copy of a composable with an FAwareComponent has just run the Copy closure
\* of the entry both composables hold, with the component the lookup found under
\* the key of the entry in the source
C29_Witness ==
    /\ fatal = NoFatal
    /\ \E d, c \in Owners :
          /\ d # c
          /\ MapKeys(comps[d].ComponentLogistics) = {"FAwareComponent"}
          /\ \E n \in DOMAIN hookCalls :
                /\ hookCalls[n].hook = "OnCopiedAt" /\ hookCalls[n].parent = d
                /\ hookCalls[n].on = MapFind(comps[c].Components, "FAwareComponent").Storage
          /\ MapContains(comps[d].Components, "FAwareComponent")
          /\ MapKeys(comps[c].ComponentLogistics) = {"FAwareComponent"}

(* ---------------------------------------------------------------------- *)
(* Further properties of FAny, checked under SpecAny                      *)
(* ---------------------------------------------------------------------- *)
\* Storage, both closures, the alias set and the main type are all set
FullyValid(self) ==
    /\ self.Storage # nullptr
    /\ self.Destruct.bound /\ self.CopyConstruct.bound
    /\ self.ValidTypes # {}
    /\ self.MainType # NoType

\* Storage, both closures, the alias set and the main type are all unset
FullyEmpty(self) ==
    /\ self.Storage = nullptr
    /\ ~self.Destruct.bound /\ ~self.CopyConstruct.bound
    /\ self.ValidTypes = {}
    /\ self.MainType = NoType

\* C30: every FAny is fully valid or fully empty (Storage is non-null iff
\* Destruct is bound iff CopyConstruct is bound iff ValidTypes is non-empty iff
\* MainType is a valid identity), and a destructor never calls the Destruct
\* facility with a null payload pointer.
C30_AsStated ==
    /\ [](\A i \in Slots : Exists(i) => FullyValid(anys[i]) \/ FullyEmpty(anys[i]))
    /\ [][\A i \in Slots :
             DoDestroy(i) /\ anys[i].Destruct.bound => anys[i].Storage # nullptr]_vars

====
